---- MODULE Spec2Model ----
(***************************************************************************)
(* FundaMental: the reconciliation store (server FundaDB), the server     *)
(* spiders (FundaSpider, FundaSpiderSold) and run_spider, the batching,   *)
(* dispatch and checkpoint code of src/scripts/spiders, and the sold      *)
(* spider and the database of src/funda.                                   *)
(*                                                                         *)
(*   Spec         serial calls of FundaDB.insert_property on one database  *)
(*   SpecRace     two insert_property calls interleaved at statement level *)
(*   SpecCrawl    FundaSpider.parse over a sequence of listing pages       *)
(*   SpecRun      a run of either server spider: listing and detail pages  *)
(*   SpecDiscover the listing discovery of parse on one search page        *)
(*   SpecBatch    the record buffer of the scripts spiders                 *)
(*   SpecPipe     FundaPipeline.process_batch against a failing sink       *)
(*   SpecResume   construction of the scripts FundaSpiderSold on a         *)
(*                checkpoint                                               *)
(*   SpecKnown    either server spider on a database that holds rows       *)
(*   SpecCount    the counters of a run of the server FundaSpider          *)
(*   SpecRestart  runs of the funda package's sold spider, one after the   *)
(*                other, over a checkpoint                                 *)
(*   SpecBlocks   the structured-data blocks read by the detail callbacks  *)
(*   SpecLabel    the energy label strategies of extract_property_data     *)
(*   SpecGeo      insert_property of the funda package and the geocoder    *)
(*   SpecOut      the messages run_spider writes to standard output        *)
(***************************************************************************)
EXTENDS Integers, Sequences, FiniteSets, TLC

\* ------------------------------------------------------------------ bounds

\* Number of insert_property calls of one serial run.
MaxCalls == 3

\* Number of listing pages whose responses one crawl receives.
PageCap == 6

\* Number of records one run of a batching spider extracts.
MaxRecords == 250

\* Number of records of the batch handed to process_batch.
MaxBatch == 2

\* Largest page_count of a checkpoint on disk.
MaxSaved == 3

\* ------------------------------------------------------------- the schema

\* None / SQL NULL.
NULL == "NULL"

URLS == {"u1", "u2"}

STATUSES == {"active", "inactive", "republished", "sold"}

\* The columns the UPDATE of insert_property sets, in its order.
COLUMNS ==
    {"street", "neighborhood", "property_type", "city", "postal_code", "price",
     "year_built", "living_area", "num_rooms", "status", "listing_date",
     "selling_date", "scraped_at"}

\* item.get(key): the value, or None when the dict has no such key.
Get(item, key) == IF key \in DOMAIN item THEN item[key] ELSE NULL

\* A record with every column extracted.
FullItem(url, status) ==
    [k \in {"url"} \cup COLUMNS |->
        CASE k = "url" -> url
          [] k = "status" -> status
          [] k = "scraped_at" -> "t1"
          [] OTHER -> "full_" \o k]

\* A record whose extraction found nothing but the url and the status.
PartialItem(url, status) ==
    [k \in {"url", "status", "scraped_at"} |->
        CASE k = "url" -> url
          [] k = "status" -> status
          [] OTHER -> "t2"]

\* The records the callers pass to insert_property.
ITEMS ==
    {FullItem(u, s) : u \in URLS, s \in STATUSES}
        \cup {PartialItem(u, s) : u \in URLS, s \in STATUSES}

VARIABLES
    properties,   \* the rows of table properties (committed)
    seq,          \* sqlite_sequence of properties: the largest id handed out
    now,          \* CURRENT_TIMESTAMP, a logical clock: the calls made so far
    before,       \* history: the rows and the sequence before the last call
    call,         \* history: the record the last call was given
    ret,          \* history: what the last call returned, and its item after it
    log           \* history: every call so far, oldest first

dbvars == <<properties, seq, now, before, call, ret, log>>

VARIABLES
    pc,           \* per caller: the statement of insert_property it is at
    arg,          \* per caller: the record it was called with
    frame,        \* per caller: its locals (current_status, item, rowcount, ok)
    txn,          \* the open write transaction: its owner and its view of the table
    start         \* history: the rows and the sequence when the callers started

racevars == <<pc, arg, frame, txn, start>>

VARIABLES
    max_pages,              \* FundaSpider.max_pages: the page budget, 0 for None
    page_count,             \* FundaSpider.page_count
    processed_urls,         \* FundaSpider.processed_urls
    existing_urls,          \* FundaSpider.existing_urls
    total_items_scraped,    \* FundaSpider.total_items_scraped
    new_items_found,        \* FundaSpider.new_items_found
    empty_pages_count,      \* FundaSpider.empty_pages_count
    no_new_listings_count,  \* FundaSpider.no_new_listings_count
    fetching,               \* the listing page whose response is awaited, 0: none
    listing_requests,       \* history: the listing pages requested so far
    detail_requests,        \* per detail URL: the requests yielded for it
    pages,                  \* history: what each parsed listing page held
    stop,                   \* history: why parse yielded no next page
    found,                  \* history: per parsed listing page, how many
                            \* candidates it held and how many were new
    yielded                 \* history: the detail requests yielded, each with
                            \* whether its url was in processed_urls by then

crawlvars ==
    <<max_pages, page_count, processed_urls, existing_urls, total_items_scraped,
      new_items_found, empty_pages_count, no_new_listings_count, fetching,
      listing_requests, detail_requests, pages, stop, found, yielded>>

VARIABLES
    name,         \* the spider class of the run: its `name` attribute
    clock,        \* the wall clock, one tick per detail callback
    emitted,      \* the records the detail callback returned, in parse order,
                  \* each with the clock time of its parse
    answered,     \* per detail URL: the responses its callback has been given
    dropped       \* the detail responses that gave no record, and why

runvars == <<name, clock, emitted, answered, dropped>>

VARIABLES
    response,     \* the search page handed to the discovery
    candidates    \* all_listing_urls of it, once computed

discovervars == <<response, candidates>>

VARIABLES
    buffer,               \* scripts spider: self.buffer
    batches,              \* the batches the spider yielded, oldest first
    batch_items_scraped,  \* scripts spider: self.total_items_scraped
    spider_closed         \* the engine has called closed(reason)

batchvars == <<buffer, batches, batch_items_scraped, spider_closed>>

VARIABLES
    batch_item,       \* the number of records of the batch given to process_batch
    batch_outcomes,   \* what the sink answers to the 1st, 2nd, 3rd batch post
    item_outcomes,    \* per record: what the sink answers to its posts
    trace,            \* history: the posts, delays and log entries, in order
    result            \* history: how process_batch ended

pipevars == <<batch_item, batch_outcomes, item_outcomes, trace, result>>

VARIABLES
    state_file,   \* the checkpoint file of the place, on disk
    spider        \* the scripts FundaSpiderSold object, once constructed

resumevars == <<state_file, spider>>

VARIABLES
    site,         \* the search pages the site serves, and how they link
    funda,        \* the process that runs the funda FundaSpiderSold, if any
    disk,         \* what outlives a process: the state file and the database
    journal       \* history: per run, what it requested, dispatched and
                  \* emitted, and how it ended

restartvars == <<site, funda, disk, journal>>

VARIABLES
    json_ld_scripts,  \* the structured-data blocks of a page, in page order
    extraction        \* what a callback took from them, once it has run

blockvars == <<json_ld_scripts, extraction>>

\* The variables of the specifications on the funda package, on the
\* structured-data blocks and on the server run path.
VARIABLES
    found_label,      \* what a detail page holds as its energy label, and where
    energy_label      \* item['energy_label'] once the extractor has run

labelvars == <<found_label, energy_label>>

VARIABLES
    funda_properties, \* funda package: the rows of table properties
    funda_seq,        \* sqlite_sequence of that table: the largest id handed out
    today,            \* CURRENT_TIMESTAMP of that database
    upserts           \* history: the urls given to insert_property, in call order

geovars == <<funda_properties, funda_seq, today, upserts>>

VARIABLES
    collector,        \* run_spider: the ItemCollector, its items and total_items
    stdout,           \* the messages printed so far, in order
    item_count,       \* the records the spider has returned so far
    returned          \* whether run_spider has returned

outvars == <<collector, stdout, item_count, returned>>

latevars == <<restartvars, blockvars, labelvars, geovars, outvars>>

\* All but the variables of the restart.
besides_restart == <<blockvars, labelvars, geovars, outvars>>

\* All but the variables of the blocks.
besides_blocks == <<restartvars, labelvars, geovars, outvars>>

\* All but the variables of the energy label.
besides_label == <<restartvars, blockvars, geovars, outvars>>

\* All but the variables of the funda database.
besides_geo == <<restartvars, blockvars, labelvars, outvars>>

\* All but the variables of the server run path.
besides_out == <<restartvars, blockvars, labelvars, geovars>>

\* The variables of the specifications other than the store and the crawl.
sidevars == <<discovervars, batchvars, pipevars, resumevars, latevars>>

\* The variables of every specification but those on the funda package and
\* on the server run path.
earlyvars ==
    <<dbvars, racevars, crawlvars, runvars, discovervars, batchvars, pipevars,
      resumevars>>

vars == <<dbvars, racevars, crawlvars, runvars, sidevars>>

\* ------------------------------------------------------ FundaDB (server)

\* The rows of `rows` for `url` (the WHERE url = ? of every statement).
Matching(rows, url) == {r \in rows : r.url = url}

\* fetchone(): the first row of the result, by rowid.
fetchone(sel) == CHOOSE r \in sel : \A o \in sel : r.id <= o.id

\* get_property_status: result[0] if result else None.
get_property_status(rows, url) ==
    IF Matching(rows, url) = {} THEN NULL ELSE fetchone(Matching(rows, url)).status

\* Mutant of Republish: the rule also fires on a row already republished.
RepublishSticky(current_status, item) ==
    IF current_status \in {"inactive", "republished"} /\ Get(item, "status") = "active"
      THEN [item EXCEPT !["status"] = "republished"]
      ELSE item

\* Mutant of Republish: the rule fires whatever status was observed.
RepublishAny(current_status, item) ==
    IF current_status = "inactive" /\ "status" \in DOMAIN item
      THEN [item EXCEPT !["status"] = "republished"]
      ELSE item

\* The republish rule: item['status'] = 'republished'.
Republish(current_status, item) ==
    IF current_status = "inactive" /\ Get(item, "status") = "active"
      THEN [item EXCEPT !["status"] = "republished"]
      ELSE item

\* Mutant of SetColumns: a column the record lacks keeps its old value
\* (SET street = COALESCE(?, street), ...).
SetColumnsKeep(r, item) ==
    [c \in DOMAIN r |->
        IF c \in COLUMNS /\ c \in DOMAIN item THEN item[c] ELSE r[c]]

\* The SET clause applied to one row: every column takes item.get(column).
SetColumns(r, item) ==
    [r EXCEPT
        !.street = Get(item, "street"),
        !.neighborhood = Get(item, "neighborhood"),
        !.property_type = Get(item, "property_type"),
        !.city = Get(item, "city"),
        !.postal_code = Get(item, "postal_code"),
        !.price = Get(item, "price"),
        !.year_built = Get(item, "year_built"),
        !.living_area = Get(item, "living_area"),
        !.num_rooms = Get(item, "num_rooms"),
        !.status = Get(item, "status"),
        !.listing_date = Get(item, "listing_date"),
        !.selling_date = Get(item, "selling_date"),
        !.scraped_at = Get(item, "scraped_at")]

\* Mutant of UpdateRows: the UPDATE has lost its WHERE clause.
UpdateEveryRow(rows, item) == {SetColumns(r, item) : r \in rows}

\* UPDATE properties SET ... WHERE url = ?
UpdateRows(rows, item) ==
    {IF r.url = Get(item, "url") THEN SetColumns(r, item) ELSE r : r \in rows}

\* Mutant of RowCount: the count of the rows of the table, not of the url.
RowCountOfTable(rows, item) == Cardinality(rows)

\* cursor.rowcount of the UPDATE.
RowCount(rows, item) == Cardinality(Matching(rows, Get(item, "url")))

\* The row of INSERT INTO properties (...): id from AUTOINCREMENT, created_at
\* from its DEFAULT, latitude and longitude not named and so NULL.
NewRow(id, item, time) ==
    SetColumns(
        [id |-> id, url |-> Get(item, "url"), street |-> NULL, neighborhood |-> NULL,
         property_type |-> NULL, city |-> NULL, postal_code |-> NULL, price |-> NULL,
         year_built |-> NULL, living_area |-> NULL, num_rooms |-> NULL,
         status |-> NULL, listing_date |-> NULL, selling_date |-> NULL,
         scraped_at |-> NULL, created_at |-> time, latitude |-> NULL,
         longitude |-> NULL],
        item)

\* url TEXT UNIQUE: the INSERT raises sqlite3.IntegrityError on a second row.
UniqueViolation(rows, item) == Matching(rows, Get(item, "url")) # {}

\* One whole insert_property(item) on a database nobody else writes: the
\* rows and sequence after it, the item as the call leaves it, the return value.
insert_property(rows, sq, item, time) ==
    LET current_status == get_property_status(rows, Get(item, "url"))
        it == Republish(current_status, item)
        updated == UpdateRows(rows, it)
    IN  IF RowCount(rows, it) # 0
          THEN [rows |-> updated, seq |-> sq, item |-> it, ok |-> TRUE]
          ELSE IF UniqueViolation(updated, it)
            \* except sqlite3.Error: return False; leaving the with block
            \* commits what the UPDATE did
            THEN [rows |-> updated, seq |-> sq, item |-> it, ok |-> FALSE]
            ELSE [rows |-> updated \cup {NewRow(sq + 1, it, time)},
                  seq |-> sq + 1, item |-> it, ok |-> TRUE]

\* get_all_active_urls: the urls of the rows not sold.
get_all_active_urls(rows) ==
    {r.url : r \in {x \in rows : x.status \in {"active", "inactive", "republished"}}}

\* The two callers of the interleaved runs.
CALLERS == {"c1", "c2"}

\* No write transaction is open.
NoTxn == [owner |-> NULL, rows |-> {}, seq |-> 0]

\* No caller is inside insert_property.
NoCallers ==
    /\ pc = [c \in CALLERS |-> "idle"]
    /\ arg = [c \in CALLERS |-> NULL]
    /\ frame = [c \in CALLERS |-> NULL]
    /\ txn = NoTxn
    /\ start = NULL

\* No spider has been constructed.
NoCrawl ==
    /\ max_pages = 0
    /\ page_count = 0
    /\ processed_urls = {}
    /\ existing_urls = {}
    /\ total_items_scraped = 0
    /\ new_items_found = 0
    /\ empty_pages_count = 0
    /\ no_new_listings_count = 0
    /\ fetching = 0
    /\ listing_requests = {}
    /\ detail_requests = <<>>
    /\ pages = <<>>
    /\ stop = NULL
    /\ found = <<>>
    /\ yielded = {}

\* No run of a server spider is under way.
NoRun ==
    /\ name = NULL
    /\ clock = 0
    /\ emitted = <<>>
    /\ answered = <<>>
    /\ dropped = {}

\* No page is under discovery.
NoDiscover ==
    /\ response = [status |-> 200, jsonld |-> {}, html |-> {}, next_button |-> FALSE]
    /\ candidates = [done |-> FALSE, urls |-> {}]

\* No batching spider runs.
NoBatch ==
    /\ buffer = <<>>
    /\ batches = <<>>
    /\ batch_items_scraped = 0
    /\ spider_closed = FALSE

\* process_batch has not been called.
NotCalled == [done |-> FALSE, raised |-> NULL, ret |-> NULL]

NoPipe ==
    /\ batch_item = 0
    /\ batch_outcomes = <<>>
    /\ item_outcomes = <<>>
    /\ trace = <<>>
    /\ result = NotCalled

\* The checkpoint of a place that was never crawled.
NoFile ==
    [exists |-> FALSE,
     state |-> [page_count |-> 0, processed_urls |-> {},
                total_items_scraped |-> 0, new_items_found |-> 0]]

\* No scripts FundaSpiderSold has been constructed.
NotBuilt ==
    [built |-> FALSE, resume |-> FALSE, has_state_file |-> FALSE,
     page_count |-> 0, processed_urls |-> {}, total_items_scraped |-> 0,
     new_items_found |-> 0, page_param |-> 0]

NoResume ==
    /\ state_file = NoFile
    /\ spider = NotBuilt

\* The checkpoint of a place the funda spider never crawled.
NoStateFile ==
    [exists |-> FALSE, page_count |-> 0, processed_urls |-> {},
     total_items_scraped |-> 0, new_items_found |-> 0]

\* No process runs the funda spider.
NoProcess ==
    [alive |-> FALSE, raised |-> "none", resume |-> FALSE, max_pages |-> 0,
     page_count |-> 0, processed_urls |-> {}, existing_urls |-> {},
     total_items_scraped |-> 0, new_items_found |-> 0, page_param |-> 0,
     fetching |-> 0, inflight |-> {}, seen |-> {}]

NoRestart ==
    /\ site = [absolute |-> TRUE, pages |-> <<>>]
    /\ funda = NoProcess
    /\ disk = [state_file |-> NoStateFile, rows |-> {},
               get_existing_urls |-> FALSE]
    /\ journal = <<>>

\* No callback has run on the blocks.
NotExtracted ==
    [by |-> "none", urls |-> {}, json_ld |-> 0, street |-> NULL,
     postal_code |-> NULL, price |-> NULL, living_area |-> NULL,
     listing_date |-> NULL, selling_date |-> NULL]

NoBlocks ==
    /\ json_ld_scripts = <<>>
    /\ extraction = NotExtracted

\* The extractor has not run.
NoLabelYet == [done |-> FALSE, value |-> <<>>]

NoLabel ==
    /\ found_label = [by |-> "none", text |-> <<>>]
    /\ energy_label = NoLabelYet

\* No database of the funda package.
NoGeo ==
    /\ funda_properties = {}
    /\ funda_seq = 0
    /\ today = 0
    /\ upserts = <<>>

\* run_spider has not been called.
NoOut ==
    /\ collector = [items |-> <<>>, total_items |-> 0]
    /\ stdout = <<>>
    /\ item_count = 0
    /\ returned = FALSE

NoLate == NoRestart /\ NoBlocks /\ NoLabel /\ NoGeo /\ NoOut

\* Nothing but the subject of the specification exists.
NoSide == NoDiscover /\ NoBatch /\ NoPipe /\ NoResume /\ NoLate

\* A database never opened.
NoStore ==
    /\ properties = {}
    /\ seq = 0
    /\ now = 0
    /\ before = [rows |-> {}, seq |-> 0]
    /\ call = NULL
    /\ ret = NULL
    /\ log = <<>>

\* Nothing of the server store, the server crawl and the scripts package
\* exists.
NoEarly ==
    /\ NoStore
    /\ NoCallers
    /\ NoCrawl
    /\ NoRun
    /\ NoDiscover
    /\ NoBatch
    /\ NoPipe
    /\ NoResume

\* ---------------------------------------------------------- Spec: serial

\* FundaDB() on a new file: init_db creates an empty table.
Init ==
    /\ properties = {}
    /\ seq = 0
    /\ now = 0
    /\ before = [rows |-> {}, seq |-> 0]
    /\ call = NULL
    /\ ret = NULL
    /\ log = <<>>
    /\ NoCallers
    /\ NoCrawl
    /\ NoRun
    /\ NoSide

\* db.insert_property(item)
InsertPropertyCall(item) ==
    /\ now < MaxCalls
    /\ LET out == insert_property(properties, seq, item, now + 1)
       IN  /\ properties' = out.rows
           /\ seq' = out.seq
           /\ ret' = [ok |-> out.ok, item |-> out.item]
           /\ log' = Append(log,
                    [item |-> item,
                     old |-> get_property_status(properties, Get(item, "url")),
                     new |-> get_property_status(out.rows, Get(item, "url"))])
    /\ now' = now + 1
    /\ before' = [rows |-> properties, seq |-> seq]
    /\ call' = item
    /\ UNCHANGED <<racevars, crawlvars, runvars, sidevars>>

Next == \E item \in ITEMS : InsertPropertyCall(item)

Spec == Init /\ [][Next]_vars

\* ------------------------------------------- claims on the serial store

\* The url of the last call, and its stored status before and after it.
CallUrl == Get(call, "url")

OldStatus == get_property_status(before.rows, CallUrl)

NewStatus == get_property_status(properties, CallUrl)

\* The rule of lines 81-83 applies to the last call.
RepublishApplies == OldStatus = "inactive" /\ Get(call, "status") = "active"

\* C1: once the stored status of a URL is 'sold', an insert_property for that
\* URL whose observed status is 'active', 'inactive' or 'republished' leaves
\* the stored status 'sold'.
C1_SoldIsTerminal ==
    (now > 0 /\ OldStatus = "sold" /\ Get(call, "status") # "sold")
        => NewStatus = "sold"

\* C2: on a URL stored 'inactive', an upsert observing 'active' stores
\* 'republished'; the next upsert of a fresh record observing 'active' for
\* that URL stores 'active', not 'republished' again.
C2_RepublishThenActive ==
    \A i \in 1..Len(log) :
        (log[i].old = "inactive" /\ Get(log[i].item, "status") = "active")
            => /\ log[i].new = "republished"
               /\ (/\ i < Len(log)
                   /\ Get(log[i + 1].item, "url") = Get(log[i].item, "url")
                   /\ Get(log[i + 1].item, "status") = "active")
                      => log[i + 1].new = "active"

\* C2 witness: the two upserts have both happened.
C2_Witness ==
    \E i \in 1..Len(log) :
        /\ i < Len(log)
        /\ log[i].old = "inactive" /\ Get(log[i].item, "status") = "active"
        /\ log[i].new = "republished"
        /\ Get(log[i + 1].item, "url") = Get(log[i].item, "url")
        /\ Get(log[i + 1].item, "status") = "active"
        /\ log[i + 1].new = "active"

\* The status changes the data model allows.
ALLOWED_TRANSITIONS ==
    {<<"active", "inactive">>, <<"inactive", "republished">>, <<"active", "sold">>,
     <<"inactive", "sold">>, <<"republished", "sold">>}

\* C3: every change of a URL's stored status made by an insert_property call
\* is active->inactive, inactive->republished or active/inactive/republished
\* ->sold.
C3_RestrictedTransitions ==
    \A i \in 1..Len(log) :
        (log[i].old # NULL /\ log[i].new # log[i].old)
            => <<log[i].old, log[i].new>> \in ALLOWED_TRANSITIONS

\* A row without scraped_at.
SansScrapedAt(r) == [c \in DOMAIN r \ {"scraped_at"} |-> r[c]]

\* The same record observed again later.
Again(item) == [item EXCEPT !["scraped_at"] = "t3"]

\* The rows after `item` is upserted once more into the present store.
OnceMore(item) == insert_property(properties, seq, item, now + 1).rows

\* C4 as claimed: whatever the store held, applying a record a second time
\* leaves every row as the first application left it, scraped_at aside.
C4_Idempotent ==
    now > 0 =>
        {SansScrapedAt(r) : r \in OnceMore(Again(call))}
            = {SansScrapedAt(r) : r \in properties}

\* C4 as amended: the same, unless the first application found the URL
\* 'inactive' and the record observes 'active'; then the first application
\* stores 'republished' and the second 'active', every other column agreeing.
C4_IdempotentUnlessRepublish ==
    now > 0 =>
        IF RepublishApplies
          THEN /\ NewStatus = "republished"
               /\ get_property_status(OnceMore(Again(call)), CallUrl) = "active"
               /\ {[SansScrapedAt(r) EXCEPT !.status = NULL] : r \in OnceMore(Again(call))}
                    = {[SansScrapedAt(r) EXCEPT !.status = NULL] : r \in properties}
          ELSE C4_Idempotent

\* C4 witness: the same record was upserted twice in a row into a store that
\* already held its URL, and the second upsert changed no row.
C4_Witness ==
    /\ Len(log) = 3
    /\ log[3].item = log[2].item
    /\ log[2].old \in STATUSES
    /\ ~RepublishApplies
    /\ properties = before.rows

\* C5: the table holds at most one row per url; an upsert of a URL already
\* present updates its row and inserts nothing, an upsert of an absent URL
\* inserts exactly one row.
C5_OneRowPerUrl ==
    /\ \A r1, r2 \in properties : r1.url = r2.url => r1 = r2
    /\ now > 0 =>
        IF Matching(before.rows, CallUrl) # {}
          THEN /\ {r.id : r \in properties} = {r.id : r \in before.rows}
               /\ \A r \in Matching(properties, CallUrl) :
                    r.scraped_at = Get(call, "scraped_at")
          ELSE /\ Cardinality(properties) = Cardinality(before.rows) + 1
               /\ Cardinality(Matching(properties, CallUrl)) = 1
               /\ before.rows \subseteq properties

\* C5 witness: an upsert of a present URL after an upsert of another URL.
C5_Witness ==
    /\ Cardinality(properties) = 2
    /\ Matching(before.rows, CallUrl) # {}
    /\ Cardinality(before.rows) = 2

\* A row without its generated id and created_at.
SansGenerated(r) == [c \in DOMAIN r \ {"id", "created_at"} |-> r[c]]

\* The store after `first` and then `second` are upserted into the store the
\* last call found.
InOrder(first, second) ==
    LET one == insert_property(before.rows, before.seq, first, now)
    IN  insert_property(one.rows, one.seq, second, now + 1).rows

\* C7: upserts of records with different URLs commute: both orders end in the
\* same rows, the generated id and created_at aside.
C7_DistinctUrlsCommute ==
    now > 0 =>
        \A other \in ITEMS :
            Get(other, "url") # CallUrl
                => {SansGenerated(r) : r \in InOrder(call, other)}
                     = {SansGenerated(r) : r \in InOrder(other, call)}

\* C7 witness: two records with different URLs upserted one after the other
\* into a store holding both URLs, the first of them under the republish rule.
C7_Witness ==
    /\ Len(log) = 3
    /\ Get(log[2].item, "url") # Get(log[3].item, "url")
    /\ log[2].old = NULL /\ log[3].old = "inactive" /\ log[3].new = "republished"

\* C8: on a URL that exists, when the republish rule does not apply, every
\* record column of its row equals the new record's value afterwards, NULL
\* for a field the record lacks.
C8_OverwriteAllFields ==
    (now > 0 /\ Matching(before.rows, CallUrl) # {} /\ ~RepublishApplies)
        => \A r \in Matching(properties, CallUrl) :
             \A c \in COLUMNS : r[c] = Get(call, c)

\* C8 witness: a row with every column known was overwritten by a record
\* that lacks them.
C8_Witness ==
    /\ now > 0
    /\ ~RepublishApplies
    /\ \E r \in Matching(before.rows, CallUrl) : r.price # NULL
    /\ \E r \in Matching(properties, CallUrl) : r.price = NULL /\ r.street = NULL

\* ------------------------------------------------ SpecRace: interleaved

\* The url the two callers upsert.
RACE_URL == "u1"

\* The stores the callers may find: a new database, or one a first
\* insert_property of RACE_URL has written.
RACE_STORES ==
    {[rows |-> {}, seq |-> 0]}
        \cup {[rows |-> insert_property({}, 0, it, 0).rows, seq |-> 1] :
                it \in {i \in ITEMS : Get(i, "url") = RACE_URL}}

\* Two callers enter insert_property, each with a record of RACE_URL.
InitRace ==
    /\ \E st \in RACE_STORES :
        /\ properties = st.rows
        /\ seq = st.seq
        /\ start = st
    /\ now = 1
    /\ before = [rows |-> {}, seq |-> 0]
    /\ call = NULL
    /\ ret = NULL
    /\ log = <<>>
    /\ arg \in [CALLERS -> {i \in ITEMS : Get(i, "url") = RACE_URL}]
    /\ pc = [c \in CALLERS |-> "status"]
    /\ frame = [c \in CALLERS |->
                 [current_status |-> NULL, item |-> arg[c], rowcount |-> 0,
                  ok |-> FALSE]]
    /\ txn = NoTxn
    /\ NoCrawl
    /\ NoRun
    /\ NoSide

\* Lines 80-83: get_property_status on a connection of its own sees the
\* committed rows; then the republish rule rewrites the item.
ReadStatus(c) ==
    /\ pc[c] = "status"
    /\ LET current_status == get_property_status(properties, Get(frame[c].item, "url"))
       IN  frame' = [frame EXCEPT
                       ![c].current_status = current_status,
                       ![c].item = Republish(current_status, frame[c].item)]
    /\ pc' = [pc EXCEPT ![c] = "update"]
    /\ UNCHANGED <<dbvars, arg, txn, start, crawlvars, runvars, sidevars>>

\* Lines 86-117: the UPDATE opens the write transaction of the call's
\* connection (sqlite3 begins one before a DML statement); a second writer
\* waits in the busy handler until the first has committed.
ExecuteUpdate(c) ==
    /\ pc[c] = "update"
    /\ txn = NoTxn
    /\ txn' = [owner |-> c, rows |-> UpdateRows(properties, frame[c].item), seq |-> seq]
    /\ frame' = [frame EXCEPT ![c].rowcount = RowCount(properties, frame[c].item)]
    /\ pc' = [pc EXCEPT ![c] = "insert"]
    /\ UNCHANGED <<dbvars, arg, start, crawlvars, runvars, sidevars>>

\* Lines 120-142: if cursor.rowcount == 0, the INSERT; sqlite3.IntegrityError
\* on a url already there is caught and the call returns False.
ExecuteInsert(c) ==
    /\ pc[c] = "insert"
    /\ txn.owner = c
    /\ IF frame[c].rowcount # 0
         THEN /\ frame' = [frame EXCEPT ![c].ok = TRUE]
              /\ UNCHANGED txn
         ELSE IF UniqueViolation(txn.rows, frame[c].item)
           THEN UNCHANGED <<frame, txn>>
           ELSE /\ txn' = [txn EXCEPT
                            !.rows = @ \cup {NewRow(txn.seq + 1, frame[c].item, now)},
                            !.seq = @ + 1]
                /\ frame' = [frame EXCEPT ![c].ok = TRUE]
    /\ pc' = [pc EXCEPT ![c] = "commit"]
    /\ UNCHANGED <<dbvars, arg, start, crawlvars, runvars, sidevars>>

\* Line 144, or the exit of the with block after return False: the
\* transaction is committed and the write lock released.
commit(c) ==
    /\ pc[c] = "commit"
    /\ txn.owner = c
    /\ properties' = txn.rows
    /\ seq' = txn.seq
    /\ now' = now + 1
    /\ txn' = NoTxn
    /\ pc' = [pc EXCEPT ![c] = "done"]
    /\ UNCHANGED <<before, call, ret, log, arg, frame, start, crawlvars, runvars, sidevars>>

NextRace ==
    \E c \in CALLERS :
        \/ ReadStatus(c)
        \/ ExecuteUpdate(c)
        \/ ExecuteInsert(c)
        \/ commit(c)

SpecRace == InitRace /\ [][NextRace]_vars

\* Both calls have returned.
BothDone == \A c \in CALLERS : pc[c] = "done"

\* The rows after `first` and then `second` are upserted serially into the
\* store the callers found.
Serial(first, second) ==
    LET one == insert_property(start.rows, start.seq, first, 1)
    IN  insert_property(one.rows, one.seq, second, 2).rows

\* C6: two concurrent insert_property calls for one URL, interleaved at the
\* granularity of their steps, leave exactly one row for the URL, and its
\* content and status are those some serial order of the two would produce.
C6_RaceIsSerial ==
    BothDone =>
        /\ Cardinality(Matching(properties, RACE_URL)) = 1
        /\ \/ {SansGenerated(r) : r \in properties}
                = {SansGenerated(r) : r \in Serial(arg["c1"], arg["c2"])}
           \/ {SansGenerated(r) : r \in properties}
                = {SansGenerated(r) : r \in Serial(arg["c2"], arg["c1"])}

\* ------------------------------------------- SpecCrawl: FundaSpider

MAX_EMPTY_PAGES == 3

MAX_NO_NEW_LISTINGS == 3

\* The listings of the site.
LISTINGS == {"l1", "l2", "l3"}

\* The href of a listing in the markup of a search result.
Href(l) == "/detail/koop/" \o l \o "/"

\* The url of a listing in the structured data of a search result.
DetailUrl(l) == "https://www.funda.nl" \o Href(l)

\* A link of a search result that leads to no listing.
OTHER_HREF == "/makelaar/m1/"

\* The relative and the absolute links of the pages.
RELATIVE_HREFS == {Href(l) : l \in LISTINGS} \cup {OTHER_HREF}

DETAIL_URLS == {DetailUrl(l) : l \in LISTINGS}

\* response.urljoin(href) on a search page of www.funda.nl.
urljoin(href) ==
    IF href \in RELATIVE_HREFS THEN "https://www.funda.nl" \o href ELSE href

\* '/detail/koop/' in url
IsDetail(url) == url \in (RELATIVE_HREFS \ {OTHER_HREF}) \cup DETAIL_URLS

\* The search pages the site may answer with: the listings S, exposed in
\* the structured data, in the markup, or in both.
LISTING_PAGES ==
    {[status |-> 200,
      jsonld |-> IF mode \in {"jsonld", "both"} THEN {DetailUrl(l) : l \in S} ELSE {},
      html |-> IF mode \in {"html", "both"}
                 THEN {Href(l) : l \in S} \cup {OTHER_HREF}
                 ELSE {},
      next_button |-> nb] :
        S \in SUBSET LISTINGS, mode \in {"jsonld", "html", "both"}, nb \in BOOLEAN}

\* The answers that parse takes for a block or a redirect.
BLOCKED_PAGES ==
    {[status |-> st, jsonld |-> {}, html |-> {}, next_button |-> FALSE] :
        st \in {403, 302, 503}}

\* Every answer to the request of a search page.
RESPONSES == LISTING_PAGES \cup BLOCKED_PAGES

\* The page budgets a run is started with; 0 stands for None, which
\* `not self.max_pages` treats alike.
BUDGETS == {0, 1, 2, 3}

\* The stores a crawl may start on: a new database, or one that holds the
\* first listing, not sold.
CRAWL_STORES ==
    {{}, insert_property({}, 0, FullItem(DetailUrl("l1"), "inactive"), 0).rows}

\* Mutant of all_listing_urls: the markup is a backup, read only when the
\* structured data gave nothing.
all_listing_urls_backup(page) ==
    IF {u \in page.jsonld : IsDetail(u)} # {}
      THEN {u \in page.jsonld : IsDetail(u)}
      ELSE {urljoin(h) : h \in {x \in page.html : IsDetail(x)}}

\* Lines 93-116: all_listing_urls.
all_listing_urls(page) ==
    {u \in page.jsonld : IsDetail(u)}
        \cup {urljoin(h) : h \in {x \in page.html : IsDetail(x)}}

\* Mutant of new_listing_urls: a url already processed in this run counts
\* as new again.
new_listing_urls_unprocessed(all, processed, existing) ==
    {u \in all : u \notin existing}

\* Lines 119-120: new_listing_urls.
new_listing_urls(all, processed, existing) ==
    {u \in all : u \notin processed /\ u \notin existing}

\* Mutant of EmptyPagesCount: the counter is never reset.
EmptyPagesCountKept(count, all) == IF all = {} THEN count + 1 ELSE count

\* Lines 128-135: empty_pages_count after the page.
EmptyPagesCount(count, all) == IF all = {} THEN count + 1 ELSE 0

\* Lines 138-145: no_new_listings_count after the page.
NoNewListingsCount(count, new) == IF new = {} THEN count + 1 ELSE 0

\* Mutant of BudgetLeft: the page that reaches the budget still paginates.
BudgetLeftInclusive(budget, count) == budget = 0 \/ count <= budget

\* Line 159: not self.max_pages or self.page_count < self.max_pages.
BudgetLeft(budget, count) == budget = 0 \/ count < budget

\* Mutant of IsBlocked: only a 403 counts as a block.
IsBlocked403(status) == status = 403

\* Line 88: response.status in [403, 302, 503].
IsBlocked(status) == status \in {403, 302, 503}

\* Mutant of MarkThenYield: the request is yielded first, the url marked
\* after it.
YieldThenMark(url, processed) ==
    [processed |-> processed \cup {url},
     request |-> [url |-> url, marked |-> url \in processed]]

\* Lines 150-156 (sold spider 147-153): self.processed_urls.add(url), then
\* yield scrapy.Request(url, ...); the request is reported with whether the
\* url was marked when it left the callback.
MarkThenYield(url, processed) ==
    [processed |-> processed \cup {url},
     request |-> [url |-> url, marked |-> url \in processed \cup {url}]]

\* Lines 149-156 (sold spider 146-153): for url in new_listing_urls, in the
\* order the set is iterated.
RECURSIVE detail_loop(_, _)
detail_loop(urls, processed) ==
    IF urls = {}
      THEN [processed |-> processed, requests |-> {}]
      ELSE LET url == CHOOSE u \in urls : TRUE
               one == MarkThenYield(url, processed)
               rest == detail_loop(urls \ {url}, one.processed)
           IN  [processed |-> rest.processed,
                requests |-> {one.request} \cup rest.requests]

\* The spider classes: their `name` attribute.
FUNDA_SPIDER == "funda_spider"

FUNDA_SPIDER_SOLD == "funda_spider_sold"

\* What a page held, for the history.
Kind(all, new) ==
    IF all = {} THEN "empty" ELSE IF new = {} THEN "seen" ELSE "new"

\* How many candidates a page held and how many were new, for the history.
Found(blocked, all, new) ==
    IF blocked THEN [all |-> 0, new |-> 0]
               ELSE [all |-> Cardinality(all), new |-> Cardinality(new)]

\* items.py line 23: the default of scraped_at, datetime.now() evaluated
\* once, when the class is defined at import.
IMPORT_TIME == 0

\* The clock when the engine opens the spider, after the import.
RUN_START == IMPORT_TIME + 1

\* FundaSpider(place, max_pages) on the store in `properties`.
InitCrawl ==
    /\ properties \in CRAWL_STORES
    /\ seq = Cardinality(properties)
    /\ now = 1
    /\ before = [rows |-> {}, seq |-> 0]
    /\ call = NULL
    /\ ret = NULL
    /\ log = <<>>
    /\ NoCallers
    /\ NoSide
    /\ name = FUNDA_SPIDER
    /\ clock = RUN_START
    /\ emitted = <<>>
    /\ answered = [u \in DETAIL_URLS |-> 0]
    /\ dropped = {}
    /\ max_pages \in BUDGETS
    /\ page_count = 1
    /\ processed_urls = {}
    /\ total_items_scraped = 0
    /\ new_items_found = 0
    /\ empty_pages_count = 0
    /\ no_new_listings_count = 0
    /\ existing_urls = get_all_active_urls(properties)
    /\ fetching = 0
    /\ listing_requests = {}
    /\ detail_requests = [u \in DETAIL_URLS |-> 0]
    /\ pages = <<>>
    /\ stop = NULL
    /\ found = <<>>
    /\ yielded = {}

\* start_requests: the request of the first search page.
start_requests ==
    /\ fetching = 0
    /\ listing_requests = {}
    /\ fetching' = page_count
    /\ listing_requests' = {page_count}
    /\ UNCHANGED <<dbvars, racevars, max_pages, page_count, processed_urls,
                   existing_urls, total_items_scraped, new_items_found,
                   empty_pages_count, no_new_listings_count, detail_requests,
                   pages, stop, found, yielded, runvars, sidevars>>

\* parse(response): the whole callback, with every request it yields.
parse(page) ==
    /\ name = FUNDA_SPIDER
    /\ fetching # 0
    /\ page_count <= PageCap
    /\ LET blocked == IsBlocked(page.status)
           all == all_listing_urls(page)
           new == new_listing_urls(all, processed_urls, existing_urls)
           empties == EmptyPagesCount(empty_pages_count, all)
           stale == NoNewListingsCount(no_new_listings_count, new)
           emptyStop == all = {} /\ empties >= MAX_EMPTY_PAGES
           staleStop == ~emptyStop /\ new = {} /\ stale >= MAX_NO_NEW_LISTINGS
           paginate == ~blocked /\ ~emptyStop /\ ~staleStop
                         /\ BudgetLeft(max_pages, page_count)
       IN  /\ empty_pages_count' = IF blocked THEN empty_pages_count ELSE empties
           /\ no_new_listings_count' =
                IF blocked \/ emptyStop THEN no_new_listings_count ELSE stale
           /\ new_items_found' =
                IF blocked \/ emptyStop \/ staleStop
                  THEN new_items_found
                  ELSE new_items_found + Cardinality(new)
           /\ processed_urls' =
                IF blocked \/ emptyStop \/ staleStop
                  THEN processed_urls
                  ELSE detail_loop(new, processed_urls).processed
           /\ yielded' =
                IF blocked \/ emptyStop \/ staleStop
                  THEN yielded
                  ELSE yielded \cup detail_loop(new, processed_urls).requests
           /\ detail_requests' =
                IF blocked \/ emptyStop \/ staleStop
                  THEN detail_requests
                  ELSE [u \in DOMAIN detail_requests |->
                          IF u \in new THEN detail_requests[u] + 1
                                       ELSE detail_requests[u]]
           /\ page_count' = IF paginate THEN page_count + 1 ELSE page_count
           /\ fetching' = IF paginate THEN page_count + 1 ELSE 0
           /\ listing_requests' =
                IF paginate THEN listing_requests \cup {page_count + 1}
                            ELSE listing_requests
           /\ pages' = Append(pages, IF blocked THEN "blocked" ELSE Kind(all, new))
           /\ found' = Append(found, Found(blocked, all, new))
           /\ stop' = CASE blocked -> "blocked"
                        [] emptyStop -> "empty_pages"
                        [] staleStop -> "no_new_listings"
                        [] paginate -> NULL
                        [] OTHER -> "max_pages"
    /\ UNCHANGED <<dbvars, racevars, max_pages, existing_urls,
                   total_items_scraped, runvars, sidevars>>

NextCrawl ==
    \/ start_requests
    \/ \E page \in RESPONSES : parse(page)

SpecCrawl == InitCrawl /\ [][NextCrawl]_vars

\* -------------------------------------------------- claims on the crawl

\* The last `k` listing pages parsed all were of one of `kinds`.
LastPagesAre(k, kinds) ==
    /\ Len(pages) >= k
    /\ \A i \in (Len(pages) - k + 1)..Len(pages) : pages[i] \in kinds

\* C9: the run stops for empty pages exactly when the third consecutive
\* page with no candidate URL is parsed, not on the first or the second, and
\* requests no page after it; a page with a candidate resets
\* empty_pages_count to 0; with candidates on pages 1-3 and none on pages
\* 4-6 the run stops at page 6 and page 7 is never requested.
C9_EmptyPagesStop ==
    /\ stop = "empty_pages" <=> LastPagesAre(MAX_EMPTY_PAGES, {"empty"})
    /\ stop = "empty_pages" =>
        /\ ~LastPagesAre(MAX_EMPTY_PAGES + 1, {"empty"})
        /\ empty_pages_count = MAX_EMPTY_PAGES
        /\ fetching = 0
        /\ page_count = Len(pages)
        /\ Len(pages) + 1 \notin listing_requests
    /\ LastPagesAre(1, {"seen", "new"}) => empty_pages_count = 0
    /\ pages = <<"new", "new", "new", "empty", "empty">> =>
        stop = NULL /\ fetching = 6
    /\ pages = <<"new", "new", "new", "empty", "empty", "empty">> =>
        stop = "empty_pages" /\ 7 \notin listing_requests

\* C9 witness: pages 1-3 brought new candidates, pages 4-6 none, and the
\* run has stopped.
C9_Witness ==
    /\ pages = <<"new", "new", "new", "empty", "empty", "empty">>
    /\ stop = "empty_pages"
    /\ listing_requests = 1..6

\* C10: the run stops for want of new listings only when each of the last 3
\* pages held a candidate URL and every candidate on it was already in
\* processed_urls or existing_urls; a page with no candidate does not count
\* towards this stop, and a page with a new candidate resets the counter.
C10_NoNewListingsStop ==
    /\ stop = "no_new_listings" => LastPagesAre(MAX_NO_NEW_LISTINGS, {"seen"})
    /\ LastPagesAre(1, {"new"}) => no_new_listings_count = 0

\* C11: in a fresh run with a page budget max_pages = M >= 1, whatever the
\* listing pages hold, page_count never exceeds M, at most M listing pages
\* are requested (pages 1..M), and the page at which the budget is reached
\* yields no next-page request.
C11_PageBudget ==
    max_pages >= 1 =>
        /\ page_count <= max_pages
        /\ listing_requests \subseteq 1..max_pages
        /\ Len(pages) <= max_pages
        /\ Len(pages) = max_pages => fetching = 0

\* C11 witness: a budget of 2, two pages with listings parsed, and the run
\* stopped for the budget with pages 1 and 2 requested.
C11_Witness ==
    /\ max_pages = 2
    /\ pages = <<"new", "new">>
    /\ stop = "max_pages"
    /\ listing_requests = {1, 2}
    /\ fetching = 0

\* ------------------------------- SpecRun: a run of either server spider

\* get_sold_urls: the urls of the rows marked sold.
get_sold_urls(rows) == {r.url : r \in {x \in rows : x.status = "sold"}}

\* The parts of a detail page that the selectors and the structured data
\* of the two detail callbacks look for.
PARTS ==
    {"energy_html", "energy_jsonld", "energy_text", "street_html",
     "street_jsonld", "postal_code_jsonld", "address_html", "price_jsonld",
     "price_html", "floor_size_jsonld", "area_html", "year_built_html",
     "num_rooms_html", "listing_date_html", "selling_date_html",
     "date_posted_jsonld", "date_sold_jsonld"}

\* A detail page: its status, whether it is the verification page, and the
\* parts it holds.
DetailPage(status, challenge, parts) ==
    [status |-> status, challenge |-> challenge, parts |-> parts]

\* What a selector or a key of the structured data gives: the part, written
\* as its own name, or None.
Part(page, p) == IF p \in page.parts THEN p ELSE NULL

\* a or b
First(a, b) == IF a # NULL THEN a ELSE b

\* items.py lines 7-23: FundaItem(url=..., status=...); every other field
\* None, scraped_at the class default.
FundaItem(url, status) ==
    [f \in {"url"} \cup COLUMNS |->
        CASE f = "url" -> url
          [] f = "status" -> status
          [] f = "scraped_at" -> IMPORT_TIME
          [] OTHER -> NULL]

\* hasattr(item, key): FundaItem declares no energy_label; the attribute
\* exists once it was assigned.
HasAttr(item, key) == key \in DOMAIN item

\* item.key = value, also for an attribute the dataclass does not declare.
SetAttr(item, key, value) ==
    [f \in DOMAIN item \cup {key} |-> IF f = key THEN value ELSE item[f]]

\* parse_house line 190, parse_listing line 192: a 403 or the verification
\* page.
IsBlockedDetail(page) == page.status = 403 \/ page.challenge

\* Lines 216-223 (parse_listing 208-215): the markup selectors; the
\* attribute is assigned only when one of them matches.
energy_label_html(item, page) ==
    IF Part(page, "energy_html") # NULL
      THEN SetAttr(item, "energy_label", Part(page, "energy_html"))
      ELSE item

\* Lines 230-254 (parse_listing 222-246), for an item whose energy_label
\* can be read: the structured data, then the description.
energy_label_fallbacks(item, page) ==
    LET json == IF item["energy_label"] = NULL /\ Part(page, "energy_jsonld") # NULL
                  THEN SetAttr(item, "energy_label", Part(page, "energy_jsonld"))
                  ELSE item
    IN  IF json["energy_label"] = NULL /\ Part(page, "energy_text") # NULL
          THEN SetAttr(json, "energy_label", Part(page, "energy_text"))
          ELSE json

\* parse_house lines 259-444: street (markup, else structured data), price
\* (structured data, else markup), year, rooms, area, listing date, and
\* scraped_at = utcnow().  Neighbourhood, city, postal code and property
\* type are set by further `if` blocks of the same shape.
house_fields(item, page, t) ==
    [item EXCEPT
        !["street"] = First(Part(page, "street_html"), Part(page, "street_jsonld")),
        !["price"] = First(Part(page, "price_jsonld"), Part(page, "price_html")),
        !["year_built"] = Part(page, "year_built_html"),
        !["num_rooms"] = Part(page, "num_rooms_html"),
        !["living_area"] = Part(page, "area_html"),
        !["listing_date"] = Part(page, "listing_date_html"),
        !["scraped_at"] = t]

\* FundaSpider.parse_house(response) at time t: what it returns or raises.
\* Line 230 reads item.energy_label outside any try.
house_result(url, page, t) ==
    IF IsBlockedDetail(page)
      THEN [kind |-> "blocked", item |-> FundaItem(url, "active")]
      ELSE LET item == energy_label_html(FundaItem(url, "active"), page)
           IN  IF ~HasAttr(item, "energy_label")
                 THEN [kind |-> "AttributeError", item |-> item]
                 ELSE [kind |-> "item",
                       item |-> house_fields(energy_label_fallbacks(item, page),
                                             page, t)]

\* parse_listing lines 251-395: dates and address from the structured data,
\* else from the markup; price, floor size, year, rooms, area.  scraped_at
\* is not assigned.
listing_fields(item, page) ==
    LET dates_found == Part(page, "date_posted_jsonld") # NULL
                         \/ Part(page, "date_sold_jsonld") # NULL
        street == Part(page, "street_jsonld")
        postal == Part(page, "postal_code_jsonld")
        fallback == street = NULL \/ postal = NULL
        address == IF fallback THEN Part(page, "address_html") ELSE NULL
    IN  [item EXCEPT
            !["listing_date"] =
                IF dates_found THEN Part(page, "date_posted_jsonld")
                               ELSE Part(page, "listing_date_html"),
            !["selling_date"] =
                IF dates_found THEN Part(page, "date_sold_jsonld")
                               ELSE Part(page, "selling_date_html"),
            !["street"] =
                IF address # NULL THEN First(Part(page, "street_html"), street)
                                  ELSE street,
            !["postal_code"] = First(address, postal),
            !["price"] = Part(page, "price_jsonld"),
            !["year_built"] = Part(page, "year_built_html"),
            !["num_rooms"] = Part(page, "num_rooms_html"),
            !["living_area"] =
                First(Part(page, "floor_size_jsonld"), Part(page, "area_html"))]

\* FundaSpiderSold.parse_listing(response): what it returns or raises.
\* Line 222 reads item.energy_label outside any try.
listing_result(url, page) ==
    IF IsBlockedDetail(page)
      THEN [kind |-> "blocked", item |-> FundaItem(url, "sold")]
      ELSE LET item == energy_label_html(FundaItem(url, "sold"), page)
           IN  IF ~HasAttr(item, "energy_label")
                 THEN [kind |-> "AttributeError", item |-> item]
                 ELSE [kind |-> "item",
                       item |-> listing_fields(energy_label_fallbacks(item, page),
                                               page)]

\* The budgets, the stores and the answers of the runs.
RUN_BUDGETS == {1, 2, 3}

RUN_STORES == {{}}

\* Search pages of a run: the listings S in both sources, or a block.
RUN_PAGES ==
    {pg \in LISTING_PAGES : pg.next_button /\ pg.jsonld # {} /\ pg.html # {}}
        \cup {pg \in LISTING_PAGES : pg.jsonld = {} /\ pg.html = {} /\ ~pg.next_button}
        \cup BLOCKED_PAGES

\* Detail pages of a run: a 403, the verification page, a page with every
\* part, with the energy label in the markup only, with everything but an
\* energy label, and with no optional part at all.
RUN_DETAIL_PAGES ==
    {DetailPage(403, FALSE, {}),
     DetailPage(200, TRUE, {}),
     DetailPage(200, FALSE, PARTS),
     DetailPage(200, FALSE, {"energy_html"}),
     DetailPage(200, FALSE,
                PARTS \ {"energy_html", "energy_jsonld", "energy_text"}),
     DetailPage(200, FALSE, {})}

\* FundaSpider(...) or FundaSpiderSold(...), each with its own set of
\* known urls.
InitRun ==
    /\ properties \in RUN_STORES
    /\ seq = Cardinality(properties)
    /\ now = 1
    /\ before = [rows |-> {}, seq |-> 0]
    /\ call = NULL
    /\ ret = NULL
    /\ log = <<>>
    /\ NoCallers
    /\ NoSide
    /\ name \in {FUNDA_SPIDER, FUNDA_SPIDER_SOLD}
    /\ clock = RUN_START
    /\ emitted = <<>>
    /\ answered = [u \in DETAIL_URLS |-> 0]
    /\ dropped = {}
    /\ max_pages \in RUN_BUDGETS
    /\ page_count = 1
    /\ processed_urls = {}
    /\ total_items_scraped = 0
    /\ new_items_found = 0
    /\ empty_pages_count = 0
    /\ no_new_listings_count = 0
    /\ existing_urls = IF name = FUNDA_SPIDER
                         THEN get_all_active_urls(properties)
                         ELSE get_sold_urls(properties)
    /\ fetching = 0
    /\ listing_requests = {}
    /\ detail_requests = [u \in DETAIL_URLS |-> 0]
    /\ pages = <<>>
    /\ stop = NULL
    /\ found = <<>>
    /\ yielded = {}

\* FundaSpiderSold.parse(response): the whole callback, with every request
\* it yields.  existing_urls holds its existing_sold_urls.
sold_parse(page) ==
    /\ name = FUNDA_SPIDER_SOLD
    /\ fetching # 0
    /\ page_count <= PageCap
    /\ LET blocked == IsBlocked(page.status)
           all == all_listing_urls(page)
           new == new_listing_urls(all, processed_urls, existing_urls)
           empties == EmptyPagesCount(empty_pages_count, all)
           emptyStop == all = {} /\ empties >= MAX_EMPTY_PAGES
           seenStop == ~emptyStop /\ new = {} /\ all # {}
           paginate == ~blocked /\ ~emptyStop /\ ~seenStop
                         /\ BudgetLeft(max_pages, page_count)
                         /\ empties < MAX_EMPTY_PAGES
       IN  /\ empty_pages_count' = IF blocked THEN empty_pages_count ELSE empties
           /\ new_items_found' =
                IF blocked \/ emptyStop \/ seenStop
                  THEN new_items_found
                  ELSE new_items_found + Cardinality(new)
           /\ processed_urls' =
                IF blocked \/ emptyStop \/ seenStop
                  THEN processed_urls
                  ELSE detail_loop(new, processed_urls).processed
           /\ yielded' =
                IF blocked \/ emptyStop \/ seenStop
                  THEN yielded
                  ELSE yielded \cup detail_loop(new, processed_urls).requests
           /\ detail_requests' =
                IF blocked \/ emptyStop \/ seenStop
                  THEN detail_requests
                  ELSE [u \in DOMAIN detail_requests |->
                          IF u \in new THEN detail_requests[u] + 1
                                       ELSE detail_requests[u]]
           /\ page_count' = IF paginate THEN page_count + 1 ELSE page_count
           /\ fetching' = IF paginate THEN page_count + 1 ELSE 0
           /\ listing_requests' =
                IF paginate THEN listing_requests \cup {page_count + 1}
                            ELSE listing_requests
           /\ pages' = Append(pages, IF blocked THEN "blocked" ELSE Kind(all, new))
           /\ found' = Append(found, Found(blocked, all, new))
           /\ stop' = CASE blocked -> "blocked"
                        [] emptyStop -> "empty_pages"
                        [] seenStop -> "no_new_listings"
                        [] paginate -> NULL
                        [] OTHER -> "max_pages"
    /\ UNCHANGED <<dbvars, racevars, max_pages, existing_urls,
                   total_items_scraped, no_new_listings_count, runvars,
                   sidevars>>

\* What a detail callback leaves behind: a returned record is counted and
\* emitted, a block or an exception gives no record.
Handled(url, out) ==
    /\ answered' = [answered EXCEPT ![url] = @ + 1]
    /\ clock' = clock + 1
    /\ IF out.kind = "item"
         THEN /\ total_items_scraped' = total_items_scraped + 1
              /\ emitted' = Append(emitted, [item |-> out.item, at |-> clock])
              /\ UNCHANGED dropped
         ELSE /\ dropped' = dropped \cup {[url |-> url, why |-> out.kind]}
              /\ UNCHANGED <<total_items_scraped, emitted>>
    /\ UNCHANGED <<dbvars, racevars, max_pages, page_count, processed_urls,
                   existing_urls, new_items_found, empty_pages_count,
                   no_new_listings_count, fetching, listing_requests,
                   detail_requests, pages, stop, found, yielded, name,
                   sidevars>>

\* FundaSpider.parse_house(response) for a request that parse yielded.
parse_house(url, page) ==
    /\ name = FUNDA_SPIDER
    /\ answered[url] < detail_requests[url]
    /\ Handled(url, house_result(url, page, clock))

\* FundaSpiderSold.parse_listing(response) for a request that parse yielded.
parse_listing(url, page) ==
    /\ name = FUNDA_SPIDER_SOLD
    /\ answered[url] < detail_requests[url]
    /\ Handled(url, listing_result(url, page))

NextRun ==
    \/ start_requests
    \/ \E page \in RUN_PAGES : parse(page)
    \/ \E page \in RUN_PAGES : sold_parse(page)
    \/ \E url \in DETAIL_URLS, page \in RUN_DETAIL_PAGES : parse_house(url, page)
    \/ \E url \in DETAIL_URLS, page \in RUN_DETAIL_PAGES : parse_listing(url, page)

SpecRun == InitRun /\ [][NextRun]_vars

\* ----------------------------------------------------- claims on the run

\* The detail URLs that parse has yielded a request for.
Dispatched == {u \in DETAIL_URLS : detail_requests[u] > 0}

\* Every request for a detail page has been answered, none by a block.
AllParsedUnblocked ==
    /\ \A u \in DETAIL_URLS : answered[u] = detail_requests[u]
    /\ \A d \in dropped : d.why # "blocked"

\* The active spider has parsed max_pages listing pages, each listing
\* exactly k candidates, all of them new.
BudgetOfFullPages(k) ==
    /\ name = FUNDA_SPIDER
    /\ max_pages >= 1
    /\ Len(found) = max_pages
    /\ \A i \in DOMAIN found : found[i] = [all |-> k, new |-> k]

\* C12: with a page budget M and M listing pages that each list k unique,
\* unknown listings, exactly M*k distinct detail URLs are dispatched, the
\* run stops for the page budget, and once every detail page has been
\* parsed without a block total_items_scraped equals M*k.
C12_EndToEnd ==
    \A k \in 1..Cardinality(LISTINGS) :
        BudgetOfFullPages(k) =>
            /\ Cardinality(Dispatched) = max_pages * k
            /\ \A u \in Dispatched : detail_requests[u] = 1
            /\ stop = "max_pages"
            /\ fetching = 0
            /\ AllParsedUnblocked => total_items_scraped = max_pages * k

\* ------------------- SpecBatch: the record buffer of the scripts spiders

\* src/scripts/spiders/funda_spider_sold.py line 33 (funda_spider.py 32).
buffer_size == 100

\* The detail pages of a batching run: blocked, or one that gives a record.
BATCH_RESPONSES == {"blocked", "record"}

\* flush_buffer (398-413): the batches it yields and the buffer it leaves.
flush_buffer(buf) ==
    IF buf = <<>>
      THEN [yielded |-> <<>>, buffer |-> buf]
      ELSE [yielded |-> <<buf>>, buffer |-> <<>>]

\* FundaSpiderSold(...) of src/scripts/spiders: an empty buffer.
InitBatch ==
    /\ properties = {}
    /\ seq = 0
    /\ now = 0
    /\ before = [rows |-> {}, seq |-> 0]
    /\ call = NULL
    /\ ret = NULL
    /\ log = <<>>
    /\ NoCallers
    /\ NoCrawl
    /\ NoRun
    /\ NoDiscover
    /\ NoPipe
    /\ NoResume
    /\ NoLate
    /\ buffer = <<>>
    /\ batches = <<>>
    /\ batch_items_scraped = 0
    /\ spider_closed = FALSE

\* parse_listing (199-214; parse_property of funda_spider.py 184-210): a
\* blocked page gives nothing; a record is counted, appended, and the buffer
\* is flushed when it has reached buffer_size.  Records are numbered in the
\* order of their extraction.
scripts_parse_listing(resp) ==
    /\ ~spider_closed
    /\ batch_items_scraped < MaxRecords
    /\ IF resp = "blocked"
         THEN UNCHANGED <<buffer, batches, batch_items_scraped>>
         ELSE LET appended == Append(buffer, batch_items_scraped + 1)
                  out == IF Len(appended) >= buffer_size
                           THEN flush_buffer(appended)
                           ELSE [yielded |-> <<>>, buffer |-> appended]
              IN  /\ batch_items_scraped' = batch_items_scraped + 1
                  /\ buffer' = out.buffer
                  /\ batches' = batches \o out.yielded
    /\ UNCHANGED <<latevars, dbvars, racevars, crawlvars, runvars, discovervars,
                   pipevars, resumevars, spider_closed>>

\* closed(reason) (415-430; funda_spider.py 542-565), called by the engine
\* when the spider closes.  The method contains `yield`, so it is a
\* generator function: the call builds a generator object and returns it
\* without running one statement of the body, and the engine does not
\* iterate what a signal handler returns.  Neither the flush nor save_state
\* runs.
closed ==
    /\ ~spider_closed
    /\ spider_closed' = TRUE
    /\ UNCHANGED <<latevars, dbvars, racevars, crawlvars, runvars, discovervars,
                   pipevars, resumevars, buffer, batches, batch_items_scraped>>

NextBatch ==
    \/ \E resp \in BATCH_RESPONSES : scripts_parse_listing(resp)
    \/ closed

SpecBatch == InitBatch /\ [][NextBatch]_vars

\* C13: of the n records extracted in a run, the spider emits floor(n/100)
\* batches of exactly 100 while it runs and, when it closes, one further
\* batch with the remaining n mod 100 records, so that no record is left in
\* the buffer after close.
C13_BatchesAndFinalFlush ==
    LET n == batch_items_scraped
        full == n \div buffer_size
        rest == n % buffer_size
    IN  /\ \A i \in 1..full :
              i \in DOMAIN batches /\ Len(batches[i]) = buffer_size
        /\ ~spider_closed => Len(batches) = full
        /\ spider_closed =>
              /\ buffer = <<>>
              /\ Len(batches) = full + (IF rest = 0 THEN 0 ELSE 1)
              /\ rest # 0 => Len(batches[full + 1]) = rest

\* ------------- SpecPipe: FundaPipeline.process_batch (scripts pipeline)

\* src/scripts/spiders/pipelines.py line 45.
retry_count == 3

\* What session.post(...) followed by raise_for_status() does: it returns,
\* or raises a RequestException (connection error, timeout, HTTP error).
OUTCOMES == {"ok", "RequestException"}

\* An entry of the history: a post, a delay or a log entry, of the batch
\* (item 0) or of the record with that index.
Ev(kind, item) == [ev |-> kind, item |-> item]

\* Mutant of IsLastAttempt: no attempt is taken for the last one.
IsLastAttemptNever(attempt) == attempt = retry_count

\* Lines 76 and 107: attempt == self.retry_count - 1.
IsLastAttempt(attempt) == attempt = retry_count - 1

RECURSIVE single_attempts(_, _, _)
RECURSIVE fallback(_, _, _)
RECURSIVE fallback_uncaught(_, _, _)
RECURSIVE batch_attempts(_, _, _, _)

\* process_single_item lines 92-112, from the given attempt on: a post that
\* succeeds returns; a failed one is logged and, unless it was the last,
\* followed by a delay; the last failure raises DropItem.
single_attempts(i, outs, attempt) ==
    IF attempt >= retry_count
      THEN [trace |-> <<>>, raised |-> NULL]
      ELSE IF outs[attempt + 1] = "ok"
        THEN [trace |-> <<Ev("post_item", i)>>, raised |-> NULL]
        ELSE IF IsLastAttempt(attempt)
          THEN [trace |-> <<Ev("post_item", i), Ev("error", i)>>,
                raised |-> "DropItem"]
          ELSE LET rest == single_attempts(i, outs, attempt + 1)
               IN  [trace |-> <<Ev("post_item", i), Ev("warning", i),
                                Ev("sleep", i)>> \o rest.trace,
                    raised |-> rest.raised]

\* process_single_item(item, spider)
process_single_item(i, outs) == single_attempts(i, outs, 0)

\* Mutant of fallback: the DropItem of a record is not caught.
fallback_uncaught(i, k, iouts) ==
    IF i > k
      THEN [trace |-> <<>>, raised |-> NULL]
      ELSE LET one == process_single_item(i, iouts[i])
           IN  IF one.raised # NULL
                 THEN one
                 ELSE LET rest == fallback_uncaught(i + 1, k, iouts)
                      IN  [trace |-> one.trace \o rest.trace,
                           raised |-> rest.raised]

\* Lines 80-84, from record i on: each record posted on its own, its
\* exception caught and logged.
fallback(i, k, iouts) ==
    IF i > k
      THEN [trace |-> <<>>, raised |-> NULL]
      ELSE LET one == process_single_item(i, iouts[i])
               rest == fallback(i + 1, k, iouts)
           IN  [trace |-> one.trace
                            \o (IF one.raised # NULL THEN <<Ev("error", i)>>
                                                     ELSE <<>>)
                            \o rest.trace,
                raised |-> rest.raised]

\* process_batch lines 60-88, from the given attempt on.  A for loop that
\* runs out returns None.
batch_attempts(k, bouts, iouts, attempt) ==
    IF attempt >= retry_count
      THEN [trace |-> <<>>, raised |-> NULL, ret |-> "None"]
      ELSE IF bouts[attempt + 1] = "ok"
        THEN [trace |-> <<Ev("post_batch", 0), Ev("info", 0)>>,
              raised |-> NULL, ret |-> "batch_item"]
        ELSE IF IsLastAttempt(attempt)
          THEN LET each == fallback(1, k, iouts)
               IN  [trace |-> <<Ev("post_batch", 0), Ev("error", 0),
                                Ev("info", 0)>> \o each.trace,
                    raised |-> each.raised,
                    ret |-> IF each.raised = NULL THEN "batch_item" ELSE NULL]
          ELSE LET rest == batch_attempts(k, bouts, iouts, attempt + 1)
               IN  [trace |-> <<Ev("post_batch", 0), Ev("warning", 0),
                                Ev("sleep", 0)>> \o rest.trace,
                    raised |-> rest.raised,
                    ret |-> rest.ret]

\* process_batch(batch_item, spider) for a batch of k records: an empty
\* batch is returned at once.
process_batch(k, bouts, iouts) ==
    IF k = 0
      THEN [trace |-> <<>>, raised |-> NULL, ret |-> "batch_item"]
      ELSE batch_attempts(k, bouts, iouts, 0)

\* FundaPipeline() and a batch of up to MaxBatch records, with the answers
\* the sink will give.
InitPipe ==
    /\ properties = {}
    /\ seq = 0
    /\ now = 0
    /\ before = [rows |-> {}, seq |-> 0]
    /\ call = NULL
    /\ ret = NULL
    /\ log = <<>>
    /\ NoCallers
    /\ NoCrawl
    /\ NoRun
    /\ NoDiscover
    /\ NoBatch
    /\ NoResume
    /\ NoLate
    /\ batch_item \in 0..MaxBatch
    /\ batch_outcomes \in [1..retry_count -> OUTCOMES]
    /\ item_outcomes \in [1..batch_item -> [1..retry_count -> OUTCOMES]]
    /\ trace = <<>>
    /\ result = NotCalled

\* process_item (48-52) on a properties_batch: process_batch, whole.
ProcessBatchCall ==
    /\ ~result.done
    /\ LET out == process_batch(batch_item, batch_outcomes, item_outcomes)
       IN  /\ trace' = out.trace
           /\ result' = [done |-> TRUE, raised |-> out.raised, ret |-> out.ret]
    /\ UNCHANGED <<latevars, dbvars, racevars, crawlvars, runvars, discovervars,
                   batchvars, resumevars, batch_item, batch_outcomes,
                   item_outcomes>>

NextPipe == ProcessBatchCall

SpecPipe == InitPipe /\ [][NextPipe]_vars

\* ------------------------------------------------ claims on the pipeline

\* The attempt whose batch post succeeds, 0 when none does.
FirstOk ==
    IF \E a \in 1..retry_count : batch_outcomes[a] = "ok"
      THEN CHOOSE a \in 1..retry_count :
             /\ batch_outcomes[a] = "ok"
             /\ \A b \in 1..(a - 1) : batch_outcomes[b] # "ok"
      ELSE 0

\* The batch posts and the delays between them, in order.
IsBatchPostOrSleep(e) == e.item = 0 /\ e.ev \in {"post_batch", "sleep"}

BatchLevel == SelectSeq(trace, IsBatchPostOrSleep)

\* n posts with a delay between each two, and none after the last.
PostsWithDelays(n) ==
    [j \in 1..(2 * n - 1) |->
        IF j % 2 = 1 THEN Ev("post_batch", 0) ELSE Ev("sleep", 0)]

\* The posts of record i.
PostsOf(i) == {j \in DOMAIN trace : trace[j] = Ev("post_item", i)}

\* C14: process_batch posts the whole batch at most 3 times; the first
\* successful post ends processing with no further batch post and no
\* per-item post; the per-item fallback starts only after the 3rd
\* consecutive batch failure; a delay is taken between failed attempts but
\* not after the last one.
C14_BatchRetries ==
    (result.done /\ batch_item > 0) =>
        /\ BatchLevel =
             PostsWithDelays(IF FirstOk = 0 THEN retry_count ELSE FirstOk)
        /\ FirstOk # 0 => \A i \in 1..batch_item : PostsOf(i) = {}
        /\ \A i \in 1..batch_item : \A j \in PostsOf(i) :
             /\ FirstOk = 0
             /\ Cardinality({b \in 1..(j - 1) : trace[b] = Ev("post_batch", 0)})
                  = retry_count

\* C14 witness: two failed posts of a batch of two, a delay after each, and
\* a third post that succeeds.
C14_Witness ==
    /\ result.done
    /\ batch_item = 2
    /\ batch_outcomes = <<"RequestException", "RequestException", "ok">>
    /\ Len(BatchLevel) = 5

\* C15: in the per-item fallback every record of the batch is posted on
\* its own whatever happens to the other records; a record that still
\* fails after its own 3 attempts is dropped with an error log entry; and
\* process_batch returns the batch without raising.
C15_FallbackIsolatesRecords ==
    result.done =>
        /\ result.raised = NULL
        /\ result.ret = "batch_item"
        /\ (batch_item > 0 /\ FirstOk = 0) =>
             \A i \in 1..batch_item :
                LET oks == {a \in 1..retry_count : item_outcomes[i][a] = "ok"}
                IN  /\ PostsOf(i) # {}
                    /\ oks = {} =>
                         /\ Cardinality(PostsOf(i)) = retry_count
                         /\ \E j \in DOMAIN trace : trace[j] = Ev("error", i)

\* C15 witness: every batch post failed, the first record failed its three
\* posts and the second was stored at its first.
C15_Witness ==
    /\ result.done
    /\ batch_item = 2
    /\ FirstOk = 0
    /\ \A a \in 1..retry_count : item_outcomes[1][a] = "RequestException"
    /\ item_outcomes[2][1] = "ok"
    /\ PostsOf(2) # {}

\* ------- SpecResume: the scripts FundaSpiderSold built on a checkpoint

\* The spiders of earlier runs, as they were when save_state ran.
EARLIER_RUNS ==
    {[built |-> TRUE, resume |-> FALSE, has_state_file |-> TRUE,
      page_count |-> pg, processed_urls |-> done, total_items_scraped |-> n,
      new_items_found |-> m, page_param |-> 0] :
        pg \in 1..MaxSaved, done \in SUBSET URLS, n \in 0..2, m \in 0..2}

\* save_state (74-84): the pickle it writes to self.state_file.
save_state(self) ==
    [exists |-> TRUE,
     state |-> [page_count |-> self.page_count,
                processed_urls |-> self.processed_urls,
                total_items_scraped |-> self.total_items_scraped,
                new_items_found |-> self.new_items_found]]

\* load_state (86-97).  open(self.state_file) is inside the try: when the
\* attribute state_file is not yet assigned the AttributeError, and when
\* the file is missing the FileNotFoundError, is caught and logged, and
\* nothing is restored.
load_state(self, file) ==
    IF ~self.has_state_file \/ ~file.exists
      THEN self
      ELSE [self EXCEPT
              !.page_count = file.state.page_count,
              !.processed_urls = file.state.processed_urls,
              !.total_items_scraped = file.state.total_items_scraped,
              !.new_items_found = file.state.new_items_found]

\* FundaSpiderSold.__init__ (20-59), in the order of its statements: the
\* counters (25-28), load_state() if resume (31), state_file (38), and the
\* page of the initial request (52-53), 0 when base_params has no page.
__init__(resume, file) ==
    LET fresh == [built |-> TRUE, resume |-> resume, has_state_file |-> FALSE,
                  page_count |-> 1, processed_urls |-> {},
                  total_items_scraped |-> 0, new_items_found |-> 0,
                  page_param |-> 0]
        loaded == IF resume THEN load_state(fresh, file) ELSE fresh
        named == [loaded EXCEPT !.has_state_file = TRUE]
    IN  [named EXCEPT
           !.page_param = IF named.resume /\ named.page_count > 1
                            THEN named.page_count
                            ELSE 0]

\* The checkpoint file of the place: absent, or written by save_state in
\* an earlier run.
InitResume ==
    /\ properties = {}
    /\ seq = 0
    /\ now = 0
    /\ before = [rows |-> {}, seq |-> 0]
    /\ call = NULL
    /\ ret = NULL
    /\ log = <<>>
    /\ NoCallers
    /\ NoCrawl
    /\ NoRun
    /\ NoDiscover
    /\ NoBatch
    /\ NoPipe
    /\ NoLate
    /\ state_file \in {NoFile} \cup {save_state(run) : run \in EARLIER_RUNS}
    /\ spider = NotBuilt

\* FundaSpiderSold(place, resume=resume)
Construct(resume) ==
    /\ ~spider.built
    /\ spider' = __init__(resume, state_file)
    /\ UNCHANGED <<latevars, dbvars, racevars, crawlvars, runvars, discovervars,
                   batchvars, pipevars, state_file>>

NextResume == \E resume \in BOOLEAN : Construct(resume)

SpecResume == InitResume /\ [][NextResume]_vars

\* C16: constructing FundaSpiderSold with resume=True when a checkpoint
\* written by save_state exists restores page_count, processed_urls,
\* total_items_scraped and new_items_found to the saved values, and when
\* the restored page_count is greater than 1 the initial request carries
\* page = restored page_count.
C16_ResumeRestores ==
    (spider.built /\ spider.resume /\ state_file.exists) =>
        /\ spider.page_count = state_file.state.page_count
        /\ spider.processed_urls = state_file.state.processed_urls
        /\ spider.total_items_scraped = state_file.state.total_items_scraped
        /\ spider.new_items_found = state_file.state.new_items_found
        /\ spider.page_count > 1 => spider.page_param = spider.page_count

\* --------------------------------------- further claims on the run

\* C17: when a listing-page response has status 403, 302 or 503, parse (of
\* the active and of the sold spider) returns without yielding a detail
\* request or a next-page request, and leaves page_count, processed_urls,
\* new_items_found and the consecutive-page counters unchanged.
C17_BlockedPageFrame ==
    [][\A page \in BLOCKED_PAGES :
          (parse(page) \/ sold_parse(page)) =>
              /\ UNCHANGED <<page_count, processed_urls, new_items_found,
                             empty_pages_count, no_new_listings_count>>
              /\ UNCHANGED <<detail_requests, listing_requests>>
              /\ fetching' = 0]_vars

\* C17 witness: the sold spider took listings from page 1, asked for page 2
\* and got a block for it; the counters are those page 1 left.
C17_Witness ==
    /\ name = FUNDA_SPIDER_SOLD
    /\ pages = <<"new", "blocked">>
    /\ stop = "blocked"
    /\ page_count = 2
    /\ listing_requests = {1, 2}
    /\ processed_urls # {}
    /\ new_items_found = Cardinality(processed_urls)

\* C19: detail-page extraction never fails on a missing optional field:
\* for every detail page that is not a block, whichever of energy label,
\* address, price, floor size and dates it lacks, parse_house /
\* parse_listing returns a record (with those fields absent) and raises no
\* exception.
C19_NoFailureOnMissingField ==
    /\ \A d \in dropped : d.why = "blocked"
    /\ \A i \in DOMAIN emitted :
          \A f \in {"street", "price", "living_area", "listing_date",
                    "selling_date"} :
              f \in DOMAIN emitted[i].item

\* C20: every record a server spider emits carries a scraped_at equal to
\* the clock time at which its page was parsed; so scraped_at is never
\* earlier than the start of the run and never decreases in parse order.
C20_ScrapedAtIsParseTime ==
    \A i \in DOMAIN emitted :
        /\ emitted[i].item["scraped_at"] = emitted[i].at
        /\ emitted[i].item["scraped_at"] >= RUN_START
        /\ \A j \in 1..(i - 1) :
              emitted[j].item["scraped_at"] <= emitted[i].item["scraped_at"]

\* ------------------- SpecDiscover: the listing discovery of parse

\* A url of the structured data that leads to no listing.
OTHER_URL == "https://www.funda.nl/makelaar/m1/"

\* Every search page over the listings: any urls in the item list of the
\* structured data, any hrefs under the markup selectors.
DISCOVER_PAGES ==
    {[status |-> 200, jsonld |-> js, html |-> hs, next_button |-> FALSE] :
        js \in SUBSET (DETAIL_URLS \cup {OTHER_URL}),
        hs \in SUBSET RELATIVE_HREFS}

\* A search page has come in.
InitDiscover ==
    /\ properties = {}
    /\ seq = 0
    /\ now = 0
    /\ before = [rows |-> {}, seq |-> 0]
    /\ call = NULL
    /\ ret = NULL
    /\ log = <<>>
    /\ NoCallers
    /\ NoCrawl
    /\ NoRun
    /\ NoBatch
    /\ NoPipe
    /\ NoResume
    /\ NoLate
    /\ response \in DISCOVER_PAGES
    /\ candidates = [done |-> FALSE, urls |-> {}]

\* parse lines 92-116: all_listing_urls of the page.
Discover ==
    /\ ~candidates.done
    /\ candidates' = [done |-> TRUE, urls |-> all_listing_urls(response)]
    /\ UNCHANGED <<latevars, dbvars, racevars, crawlvars, runvars, batchvars,
                   pipevars,
                   resumevars, response>>

NextDiscover == Discover

SpecDiscover == InitDiscover /\ [][NextDiscover]_vars

\* The listings the structured data of the page names, and those its
\* markup links to.
InStructuredData == {l \in LISTINGS : DetailUrl(l) \in response.jsonld}

InMarkup == {l \in LISTINGS : Href(l) \in response.html}

\* C18: the candidate set of a page is the union of the detail URLs of the
\* structured-data item lists and of those the HTML selectors find: a
\* listing in only one of the two sources is a candidate, and a listing in
\* both is counted once.
C18_CandidatesAreUnion ==
    candidates.done =>
        /\ candidates.urls = {DetailUrl(l) : l \in InStructuredData \cup InMarkup}
        /\ Cardinality(candidates.urls)
             = Cardinality(InStructuredData \cup InMarkup)

\* C18 witness: l1 only in the structured data, l2 only in the markup, l3
\* in both, and three candidates.
C18_Witness ==
    /\ candidates.done
    /\ InStructuredData = {"l1", "l3"}
    /\ InMarkup = {"l2", "l3"}
    /\ Cardinality(candidates.urls) = 3

\* C24: a stop decision cancels nothing already issued: in the active
\* spider every detail request that parse yielded before the run stopped
\* (budget, empty pages, no new listings, or a blocked listing page) is
\* still parsed when its response arrives, and unless that response is
\* blocked its record is emitted.
C24_StopCancelsNothing ==
    (name = FUNDA_SPIDER /\ stop # NULL) =>
        \A u \in Dispatched :
            answered[u] = detail_requests[u] =>
                \/ \E i \in DOMAIN emitted : emitted[i].item["url"] = u
                \/ [url |-> u, why |-> "blocked"] \in dropped

\* ------------------ SpecKnown: either server spider on a store with rows

\* The stores a spider is started on: a new database, or one that holds the
\* first listing, inactive, and the second, sold.
KNOWN_STORES ==
    {{},
     insert_property(
         insert_property({}, 0, FullItem(DetailUrl("l1"), "inactive"), 0).rows,
         1, FullItem(DetailUrl("l2"), "sold"), 0).rows}

\* The budgets of these runs; 0 stands for None.
KNOWN_BUDGETS == {0, 3}

\* The search pages of these runs: any listings, in either source, or a
\* block.
KNOWN_PAGES == {pg \in LISTING_PAGES : pg.next_button} \cup BLOCKED_PAGES

\* FundaSpider(...) or FundaSpiderSold(...): __init__ loads the known urls,
\* get_all_active_urls() for the one and get_sold_urls() for the other.
InitKnown ==
    /\ properties \in KNOWN_STORES
    /\ seq = Cardinality(properties)
    /\ now = 1
    /\ before = [rows |-> {}, seq |-> 0]
    /\ call = NULL
    /\ ret = NULL
    /\ log = <<>>
    /\ NoCallers
    /\ NoSide
    /\ name \in {FUNDA_SPIDER, FUNDA_SPIDER_SOLD}
    /\ clock = RUN_START
    /\ emitted = <<>>
    /\ answered = [u \in DETAIL_URLS |-> 0]
    /\ dropped = {}
    /\ max_pages \in KNOWN_BUDGETS
    /\ page_count = 1
    /\ processed_urls = {}
    /\ total_items_scraped = 0
    /\ new_items_found = 0
    /\ empty_pages_count = 0
    /\ no_new_listings_count = 0
    /\ existing_urls = IF name = FUNDA_SPIDER
                         THEN get_all_active_urls(properties)
                         ELSE get_sold_urls(properties)
    /\ fetching = 0
    /\ listing_requests = {}
    /\ detail_requests = [u \in DETAIL_URLS |-> 0]
    /\ pages = <<>>
    /\ stop = NULL
    /\ found = <<>>
    /\ yielded = {}

NextKnown ==
    \/ start_requests
    \/ \E page \in KNOWN_PAGES : parse(page)
    \/ \E page \in KNOWN_PAGES : sold_parse(page)

SpecKnown == InitKnown /\ [][NextKnown]_vars

\* C21: within one run of the server active or sold spider, a URL is in
\* processed_urls before its detail request is yielded, no URL is dispatched
\* for a detail fetch more than once, and no URL of the known set loaded
\* from the store at start-up is dispatched.
C21_MarkedOnceUnknown ==
    /\ \A r \in yielded : r.marked
    /\ Dispatched \subseteq processed_urls
    /\ \A u \in DETAIL_URLS : detail_requests[u] <= 1
    /\ Dispatched \cap existing_urls = {}

\* C21 witness: the active spider knows l1 from the store; page 1 lists all
\* three listings and page 2 lists them again; l2 and l3 were dispatched,
\* once each.
C21_Witness ==
    /\ name = FUNDA_SPIDER
    /\ existing_urls = {DetailUrl("l1")}
    /\ found = <<[all |-> 3, new |-> 2], [all |-> 3, new |-> 0]>>
    /\ Dispatched = {DetailUrl("l2"), DetailUrl("l3")}
    /\ {r.url : r \in yielded} = Dispatched

\* ---- SpecRestart: the funda FundaSpiderSold, interrupted and restarted

\* The constructions of the spider that are followed.
MaxRuns == 2

\* The search results of the site, page by page, stable across the runs;
\* the pages name their listings by absolute URLs in the structured data,
\* or by relative links in the markup.
FUNDA_SITES ==
    {[absolute |-> abs, pages |-> pgs] :
        abs \in BOOLEAN,
        pgs \in {<<{"l1"}, {"l2"}, {"l3"}>>, <<{"l1", "l2"}, {"l2", "l3"}>>}}

\* The page budgets: max_pages given, or the default of line 34.
FUNDA_BUDGETS == {2, 200}

\* The answer of the site to the request of search page n.
SitePage(s, n) ==
    LET listed == IF n \in DOMAIN s.pages THEN s.pages[n] ELSE {}
    IN  [status |-> 200,
         jsonld |-> IF s.absolute THEN {DetailUrl(l) : l \in listed} ELSE {},
         html |-> IF s.absolute THEN {}
                                ELSE {Href(l) : l \in listed} \cup {OTHER_HREF},
         next_button |-> n + 1 \in DOMAIN s.pages]

\* Lines 127-150: listing_urls.  A url of the structured data is tested as
\* it is; a link of the markup is tested as the href, before urljoin.
funda_listing_urls(page, processed, existing) ==
    {u \in page.jsonld : IsDetail(u) /\ u \notin processed /\ u \notin existing}
        \cup {urljoin(h) :
                h \in {x \in page.html :
                         IsDetail(x) /\ x \notin processed /\ x \notin existing}}

\* save_state (84-94): the pickle written to self.state_file.
funda_save_state(self) ==
    [exists |-> TRUE, page_count |-> self.page_count,
     processed_urls |-> self.processed_urls,
     total_items_scraped |-> self.total_items_scraped,
     new_items_found |-> self.new_items_found]

\* load_state (96-107).
funda_load_state(self, file) ==
    [self EXCEPT !.page_count = file.page_count,
                 !.processed_urls = file.processed_urls,
                 !.total_items_scraped = file.total_items_scraped,
                 !.new_items_found = file.new_items_found]

\* FundaSpiderSold.__init__ (30-69), in the order of its statements.  Line
\* 38 calls self.db.get_existing_urls(): the FundaDB of funda/data/database.py
\* defines no such method and the call raises AttributeError; the server
\* FundaDB defines it as get_sold_urls().  Both databases are followed.
funda__init__(resume, budget, d) ==
    IF ~d.get_existing_urls
      THEN [NoProcess EXCEPT !.raised = "AttributeError"]
      ELSE LET fresh == [NoProcess EXCEPT !.alive = TRUE,
                                          !.resume = resume,
                                          !.max_pages = budget,
                                          !.page_count = 1,
                                          !.existing_urls = d.rows]
               loaded == IF resume /\ d.state_file.exists
                           THEN funda_load_state(fresh, d.state_file)
                           ELSE fresh
           IN  [loaded EXCEPT
                  !.page_param = IF loaded.resume /\ loaded.page_count > 1
                                   THEN loaded.page_count
                                   ELSE 0]

\* What the journal holds of a run not yet started.
NoRunYet ==
    [resume |-> FALSE, requested |-> {}, dispatched |-> {}, ended |-> "no",
     checkpoint |-> NoStateFile, awaited |-> 0, emitted_before |-> {}]

\* An installation before its first run: no state file, an empty database.
InitRestart ==
    /\ NoEarly
    /\ NoBlocks
    /\ NoLabel
    /\ NoGeo
    /\ NoOut
    /\ site \in FUNDA_SITES
    /\ funda = NoProcess
    /\ disk \in {[state_file |-> NoStateFile, rows |-> {},
                  get_existing_urls |-> g] : g \in BOOLEAN}
    /\ journal = [runs |-> 0, emitted |-> {}, last |-> NoRunYet, this |-> NoRunYet]

\* scrapy crawl funda_spider_sold -a resume=...: the constructor.
FundaConstruct(resume, budget) ==
    /\ ~funda.alive
    /\ journal.runs < MaxRuns
    /\ funda' = funda__init__(resume, budget, disk)
    /\ journal' =
         [journal EXCEPT
            !.runs = @ + 1,
            !.last = journal.this,
            !.this = [NoRunYet EXCEPT
                        !.resume = resume,
                        !.ended = IF funda'.alive THEN "no" ELSE "raised"]]
    /\ UNCHANGED <<earlyvars, besides_restart, site, disk>>

\* start_requests (109-116): the request of start_urls[0], page page_param
\* of the search, or page 1 when base_params carries no page.
funda_start_requests ==
    /\ funda.alive
    /\ journal.this.requested = {}
    /\ LET first == IF funda.page_param # 0 THEN funda.page_param ELSE 1
       IN  /\ funda' = [funda EXCEPT !.fetching = first]
           /\ journal' = [journal EXCEPT !.this.requested = {first}]
    /\ UNCHANGED <<earlyvars, besides_restart, site, disk>>

\* parse (118-202) on the answer to the awaited search page: the whole
\* callback.  The scheduler drops a request whose url it has seen in this
\* process (no request sets dont_filter).
funda_parse(status) ==
    /\ funda.alive
    /\ funda.fetching # 0
    /\ LET page == SitePage(site, funda.fetching)
           listing_urls ==
               funda_listing_urls(page, funda.processed_urls, funda.existing_urls)
           counted == [funda EXCEPT
                         !.new_items_found = @ + Cardinality(listing_urls),
                         !.processed_urls = @ \cup listing_urls,
                         !.inflight = @ \cup (listing_urls \ funda.seen),
                         !.seen = @ \cup listing_urls]
           paginate == listing_urls # {} /\ funda.page_count < funda.max_pages
       IN  IF IsBlocked(status)
             THEN /\ funda' = [funda EXCEPT !.fetching = 0]
                  /\ UNCHANGED <<disk, journal>>
             ELSE /\ disk' = [disk EXCEPT !.state_file = funda_save_state(counted)]
                  /\ funda' =
                       IF paginate
                         THEN [counted EXCEPT !.page_count = @ + 1,
                                              !.fetching = funda.fetching + 1]
                         ELSE [counted EXCEPT !.fetching = 0]
                  /\ journal' =
                       [journal EXCEPT
                          !.this.dispatched = @ \cup (listing_urls \ funda.seen),
                          !.this.requested =
                              IF paginate THEN @ \cup {funda.fetching + 1} ELSE @]
    /\ UNCHANGED <<earlyvars, besides_restart, site>>

\* parse_listing (204-381) on the answer to a detail request, for a page
\* whose structured data holds the keys the callback indexes, and the
\* pipeline's process_item on the record it yields (insert_property).
funda_parse_listing(url) ==
    /\ funda.alive
    /\ url \in funda.inflight
    /\ funda' = [funda EXCEPT !.inflight = @ \ {url},
                              !.total_items_scraped = @ + 1]
    /\ disk' = [disk EXCEPT !.rows = @ \cup {url}]
    /\ journal' = [journal EXCEPT !.emitted = @ \cup {url}]
    /\ UNCHANGED <<earlyvars, besides_restart, site>>

\* closed(reason) (383-393), called when no request is left: save_state,
\* and the process ends.
funda_closed ==
    /\ funda.alive
    /\ journal.this.requested # {}
    /\ funda.fetching = 0
    /\ funda.inflight = {}
    /\ disk' = [disk EXCEPT !.state_file = funda_save_state(funda)]
    /\ funda' = NoProcess
    /\ journal' = [journal EXCEPT !.this.ended = "closed"]
    /\ UNCHANGED <<earlyvars, besides_restart, site>>

\* The process is killed between two callbacks: closed() does not run, the
\* object and the requests in flight are gone, the files stay.
Interrupt ==
    /\ funda.alive
    /\ funda' = NoProcess
    /\ journal' =
         [journal EXCEPT
            !.this.ended = "killed",
            !.this.checkpoint = disk.state_file,
            !.this.awaited = funda.fetching,
            !.this.emitted_before = journal.emitted]
    /\ UNCHANGED <<earlyvars, besides_restart, site, disk>>

NextRestart ==
    \/ \E resume \in BOOLEAN, budget \in FUNDA_BUDGETS :
           FundaConstruct(resume, budget)
    \/ funda_start_requests
    \/ \E status \in {200, 403} : funda_parse(status)
    \/ \E url \in DETAIL_URLS : funda_parse_listing(url)
    \/ funda_closed
    \/ Interrupt

SpecRestart == InitRestart /\ [][NextRestart]_vars

\* --------------------------------------------------- claims on the restart

\* The run was started with resume=True on the checkpoint that the killed
\* run before it left, and has come to its end.
ResumedAndEnded ==
    /\ journal.last.ended = "killed"
    /\ journal.last.checkpoint.exists
    /\ journal.this.resume
    /\ journal.this.ended = "closed"

\* The listings of the pages after page p, as the absolute URLs the site
\* names them by.
ListedAfter(p) ==
    {DetailUrl(l) :
        l \in UNION {site.pages[n] : n \in {m \in DOMAIN site.pages : m > p}}}

MaxBlocks == 3

\* The keys of a block that the callbacks read.
BLOCK_KEYS ==
    {"itemListElement", "address", "streetAddress", "postalCode", "offers",
     "price", "floorSize", "datePosted", "dateSold"}

\* A script of type application/ld+json: whether json.loads accepts it,
\* its @type, the keys it holds and the urls of its itemListElement.  The
\* tag tells the values of one block from those of another.
Block(tag, loads, type, keys, urls) ==
    [tag |-> tag, loads |-> loads, type |-> type, keys |-> keys, urls |-> urls]

\* The value a block holds under a key: the key, marked with the tag of the
\* block; None when the block has no such key.
Val(b, k) == IF k \in b.keys THEN b.tag \o "." \o k ELSE NULL

\* The blocks the pages are made of: a malformed one, two item lists, two
\* full descriptions of the listing, one without a price, and a breadcrumb.
BLOCKS ==
    {Block("x", FALSE, "", {}, {}),
     Block("a", TRUE, "ItemList", {"itemListElement"}, {DetailUrl("l1")}),
     Block("b", TRUE, "ItemList", {"itemListElement"},
           {DetailUrl("l2"), "https://www.funda.nl" \o OTHER_HREF}),
     Block("a", TRUE, "Product", BLOCK_KEYS \ {"itemListElement"}, {}),
     Block("b", TRUE, "Product", BLOCK_KEYS \ {"itemListElement"}, {}),
     Block("c", TRUE, "Appartement",
           {"address", "streetAddress", "postalCode", "datePosted"}, {}),
     Block("d", TRUE, "BreadcrumbList", {}, {})}

\* The pages: up to MaxBlocks blocks, in any order.
BLOCK_PAGES == UNION {[1..n -> BLOCKS] : n \in 0..MaxBlocks}

\* FundaSpider.parse lines 97-108: the urls taken from the structured data.
\* json.loads is inside the try of the loop body; a block that does not
\* load is passed over.
RECURSIVE json_ld_listing_urls(_)
json_ld_listing_urls(scripts) ==
    IF scripts = <<>>
      THEN {}
      ELSE LET data == Head(scripts)
               rest == json_ld_listing_urls(Tail(scripts))
           IN  IF data.loads /\ "itemListElement" \in data.keys
                 THEN {u \in data.urls : IsDetail(u)} \cup rest
                 ELSE rest

\* Line 326: the @type values of a block that describes the listing.
HOUSE_TYPES == {"Product", "Place", "RealEstateListing", "Appartement"}

\* FundaSpider.parse_house lines 321-330: json_ld, as the position of the
\* block selected, 0 for None.  The try encloses the loop: the first block
\* that does not load ends it.
RECURSIVE select_json_ld(_, _)
select_json_ld(scripts, i) ==
    IF i > Len(scripts)
      THEN 0
      ELSE IF ~scripts[i].loads
             THEN 0
             ELSE IF scripts[i].type \in HOUSE_TYPES
                    THEN i
                    ELSE select_json_ld(scripts, i + 1)

\* Line 270: the @type values parse_listing takes the address and price of.
SOLD_TYPES == {"Appartement", "Product"}

\* FundaSpiderSold.parse_listing lines 256-286 on one block that loads:
\* the assignments it makes to the item.
sold_block(item, data) ==
    LET dated == [item EXCEPT
                    !.listing_date = IF "datePosted" \in data.keys
                                       THEN Val(data, "datePosted") ELSE @,
                    !.selling_date = IF "dateSold" \in data.keys
                                       THEN Val(data, "dateSold") ELSE @]
        typed == data.type \in SOLD_TYPES
    IN  [dated EXCEPT
           !.street = IF typed /\ "address" \in data.keys
                        THEN Val(data, "streetAddress") ELSE @,
           !.postal_code = IF typed /\ "address" \in data.keys
                             THEN Val(data, "postalCode") ELSE @,
           !.price = IF typed /\ "offers" \in data.keys /\ "price" \in data.keys
                       THEN Val(data, "price") ELSE @,
           !.living_area = IF typed /\ "floorSize" \in data.keys
                             THEN Val(data, "floorSize") ELSE @]

\* FundaSpiderSold.parse_listing lines 253-289: the loop over the blocks,
\* with no break; json.loads is inside the try of the loop body.
RECURSIVE sold_blocks(_, _)
sold_blocks(item, scripts) ==
    IF scripts = <<>>
      THEN item
      ELSE sold_blocks(IF Head(scripts).loads THEN sold_block(item, Head(scripts))
                                             ELSE item,
                       Tail(scripts))

\* A page, given to no callback yet.
InitBlocks ==
    /\ NoEarly
    /\ NoRestart
    /\ NoLabel
    /\ NoGeo
    /\ NoOut
    /\ json_ld_scripts \in BLOCK_PAGES
    /\ extraction = NotExtracted

\* FundaSpider.parse on a search page with these blocks.
ParseBlocks ==
    /\ extraction.by = "none"
    /\ extraction' = [NotExtracted EXCEPT
                        !.by = "parse",
                        !.urls = json_ld_listing_urls(json_ld_scripts)]
    /\ UNCHANGED <<earlyvars, besides_blocks, json_ld_scripts>>

\* FundaSpider.parse_house on a detail page with these blocks.
ParseHouseBlocks ==
    /\ extraction.by = "none"
    /\ extraction' = [NotExtracted EXCEPT
                        !.by = "parse_house",
                        !.json_ld = select_json_ld(json_ld_scripts, 1)]
    /\ UNCHANGED <<earlyvars, besides_blocks, json_ld_scripts>>

\* FundaSpiderSold.parse_listing on a detail page with these blocks.
ParseListingBlocks ==
    /\ extraction.by = "none"
    /\ extraction' = [sold_blocks(NotExtracted, json_ld_scripts) EXCEPT
                        !.by = "parse_listing"]
    /\ UNCHANGED <<earlyvars, besides_blocks, json_ld_scripts>>

NextBlocks ==
    \/ ParseBlocks
    \/ ParseHouseBlocks
    \/ ParseListingBlocks

SpecBlocks == InitBlocks /\ [][NextBlocks]_vars

\* ---------------------------------------------------- claims on the blocks

\* The positions of the blocks that load.
WellFormed == {i \in DOMAIN json_ld_scripts : json_ld_scripts[i].loads}

\* The positions of the well-formed blocks of a type parse_house selects.
Selectable == {i \in WellFormed : json_ld_scripts[i].type \in HOUSE_TYPES}

\* The least position of a set of positions, 0 when there is none.
FirstOf(S) == IF S = {} THEN 0 ELSE CHOOSE i \in S : \A j \in S : i <= j

\* C25: a malformed structured-data block is skipped on its own: on a
\* listing page (parse) and on a detail page (parse_house) every
\* well-formed block of the page is still used, before or after the
\* malformed one; a well-formed block of a matching type placed after a
\* malformed one is still selected as the structured-data source.
C25_MalformedSkippedAlone ==
    /\ extraction.by = "parse" =>
         extraction.urls =
             UNION {{u \in json_ld_scripts[i].urls : IsDetail(u)} : i \in WellFormed}
    /\ extraction.by = "parse_house" =>
         extraction.json_ld = FirstOf(Selectable)

\* The positions of the well-formed blocks that yield a value
\* parse_listing takes from the structured data.
Yielding ==
    {i \in WellFormed :
        \/ {"datePosted", "dateSold"} \cap json_ld_scripts[i].keys # {}
        \/ /\ json_ld_scripts[i].type \in SOLD_TYPES
           /\ {"address", "offers", "floorSize"} \cap json_ld_scripts[i].keys # {}}

\* C26: in parse_listing of the sold spider, on a page with several
\* structured-data blocks, the address, price, floor size and dates taken
\* from structured data all come from one block, the first that yields
\* them: a later block neither overwrites a value already taken nor fills
\* in a field the first matching block lacked.
C26_FirstBlockOnly ==
    (extraction.by = "parse_listing" /\ Yielding # {}) =>
        extraction = [sold_block(NotExtracted, json_ld_scripts[FirstOf(Yielding)])
                        EXCEPT !.by = "parse_listing"]

\* ------------------- SpecLabel: the energy label of a detail page

\* The length of the texts that are followed.
MaxLabel == 4

\* The characters of the texts: letters of either case inside and outside
\* A-G, the plus sign and the blank.
CHARS == {"a", "B", "H", "+", " "}

\* The texts a selector, a structured-data value or a description may hold
\* where the label is looked for, as sequences of characters.
LABEL_TEXTS == UNION {[1..n -> CHARS] : n \in 0..MaxLabel}

\* str.upper() and str.lower() on one character.
Upper(c) == CASE c = "a" -> "A" [] c = "b" -> "B" [] c = "h" -> "H" [] OTHER -> c

Lower(c) == CASE c = "B" -> "b" [] c = "H" -> "h" [] OTHER -> c

UpperAll(t) == [i \in DOMAIN t |-> Upper(t[i])]

LowerAll(t) == [i \in DOMAIN t |-> Lower(t[i])]

\* str.lstrip(), str.rstrip() and str.strip().
RECURSIVE lstrip(_)
lstrip(t) == IF t # <<>> /\ Head(t) = " " THEN lstrip(Tail(t)) ELSE t

RECURSIVE rstrip(_)
rstrip(t) ==
    IF t # <<>> /\ t[Len(t)] = " " THEN rstrip(SubSeq(t, 1, Len(t) - 1)) ELSE t

strip(t) == lstrip(rstrip(t))

\* The character classes [A-G] and [a-g] on the characters of the texts.
UPPER_A_G == {"A", "B"}

LOWER_A_G == {"a", "b"}

\* The number of plus signs t starts with.
RECURSIVE Pluses(_)
Pluses(t) == IF t # <<>> /\ Head(t) = "+" THEN 1 + Pluses(Tail(t)) ELSE 0

\* Line 235: re.match(r'^[A-G](\+{1,2})?$', clean_label).
MatchesLabel(t) ==
    /\ t # <<>>
    /\ t[1] \in UPPER_A_G
    /\ Pluses(Tail(t)) = Len(t) - 1
    /\ Len(t) - 1 <= 2

\* Lines 231-238: the markup selectors: strip, upper, and the test of the
\* whole text; <<>> when nothing is set.
label_from_html(t) ==
    IF t # <<>> /\ MatchesLabel(UpperAll(strip(t))) THEN UpperAll(strip(t)) ELSE <<>>

\* Lines 247-255: "energyLabel": "<v>" in a block of the structured data,
\* matched by ["']([A-G]\+*)["'] ignoring case: a letter and any number of
\* plus signs between the quotes; group(1).upper().
label_from_jsonld(v) ==
    IF /\ v # <<>>
       /\ UpperAll(v)[1] \in UPPER_A_G
       /\ Pluses(Tail(v)) = Len(v) - 1
      THEN UpperAll(v)
      ELSE <<>>

\* Lines 262-269: a description "energielabel<t>": strip and lower the
\* text, then \s*([a-g](?:\+{1,2})?) after the word: blanks, a letter, and
\* greedily up to two plus signs; group(1).upper().
label_from_text(t) ==
    LET rest == lstrip(LowerAll(rstrip(t)))
    IN  IF rest # <<>> /\ rest[1] \in LOWER_A_G
          THEN LET n == IF Pluses(Tail(rest)) > 2 THEN 2 ELSE Pluses(Tail(rest))
               IN  UpperAll(SubSeq(rest, 1, 1 + n))
          ELSE <<>>

\* The places a label is looked for, in the order of the strategies.
STRATEGIES == {"html", "jsonld", "text"}

\* extract_property_data lines 221-272 on a page that holds `text` where
\* strategy `by` looks, and nothing where the others look.
extract_energy_label(by, text) ==
    CASE by = "html" -> label_from_html(text)
      [] by = "jsonld" -> label_from_jsonld(text)
      [] by = "text" -> label_from_text(text)

\* A detail page with a text in one of the three places.
InitLabel ==
    /\ NoEarly
    /\ NoRestart
    /\ NoBlocks
    /\ NoGeo
    /\ NoOut
    /\ found_label \in [by : STRATEGIES, text : LABEL_TEXTS]
    /\ energy_label = NoLabelYet

\* extract_property_data on the page.
ExtractLabel ==
    /\ ~energy_label.done
    /\ energy_label' =
         [done |-> TRUE,
          value |-> extract_energy_label(found_label.by, found_label.text)]
    /\ UNCHANGED <<earlyvars, besides_label, found_label>>

NextLabel == ExtractLabel

SpecLabel == InitLabel /\ [][NextLabel]_vars

\* --------------------------------------------- claims on the energy label

\* One letter A-G followed by zero, one or two plus signs.
WellFormedLabel(t) ==
    /\ Len(t) \in 1..3
    /\ t[1] \in UPPER_A_G
    /\ \A i \in 2..Len(t) : t[i] = "+"

\* C27: every energy_label set on a record, whichever of the three
\* strategies (markup selectors, structured data, description text)
\* produced it, is one letter A-G followed by zero, one or two plus signs;
\* any other value found is rejected and the field stays absent.
C27_LabelFormat ==
    (energy_label.done /\ energy_label.value # <<>>) =>
        WellFormedLabel(energy_label.value)

\* ------------- SpecCount: the counters of a run of the server active spider

\* The stores of these runs: a new database, or one that holds the first
\* listing.
COUNT_STORES ==
    {{}, insert_property({}, 0, FullItem(DetailUrl("l1"), "inactive"), 0).rows}

\* The budgets of these runs; 0 stands for None.
COUNT_BUDGETS == {0, 4}

\* The search pages of these runs: a block, or the first two listings,
\* one of them, or none, in both sources.
COUNT_PAGES ==
    {pg \in RUN_PAGES : pg.status \in {200, 403}
                          /\ DetailUrl("l3") \notin pg.jsonld}

\* The detail pages of these runs: a 403, and a page with every part.
COUNT_DETAIL_PAGES ==
    {DetailPage(403, FALSE, {}), DetailPage(200, FALSE, PARTS)}

\* FundaSpider(...): lines 30-42 set the counters, line 45 loads the known
\* urls.
InitCount ==
    /\ properties \in COUNT_STORES
    /\ seq = Cardinality(properties)
    /\ now = 1
    /\ before = [rows |-> {}, seq |-> 0]
    /\ call = NULL
    /\ ret = NULL
    /\ log = <<>>
    /\ NoCallers
    /\ NoSide
    /\ name = FUNDA_SPIDER
    /\ clock = RUN_START
    /\ emitted = <<>>
    /\ answered = [u \in DETAIL_URLS |-> 0]
    /\ dropped = {}
    /\ max_pages \in COUNT_BUDGETS
    /\ page_count = 1
    /\ processed_urls = {}
    /\ total_items_scraped = 0
    /\ new_items_found = 0
    /\ empty_pages_count = 0
    /\ no_new_listings_count = 0
    /\ existing_urls = get_all_active_urls(properties)
    /\ fetching = 0
    /\ listing_requests = {}
    /\ detail_requests = [u \in DETAIL_URLS |-> 0]
    /\ pages = <<>>
    /\ stop = NULL
    /\ found = <<>>
    /\ yielded = {}

NextCount ==
    \/ start_requests
    \/ \E page \in COUNT_PAGES : parse(page)
    \/ \E url \in DETAIL_URLS, page \in COUNT_DETAIL_PAGES : parse_house(url, page)

SpecCount == InitCount /\ [][NextCount]_vars

\* C28: in a fresh run of the server active spider, after every call of
\* parse new_items_found equals the number of URLs in processed_urls; in
\* every reachable state total_items_scraped <= new_items_found; and
\* empty_pages_count and no_new_listings_count each stay within 0..3.
C28_Counters ==
    /\ new_items_found = Cardinality(processed_urls)
    /\ total_items_scraped <= new_items_found
    /\ empty_pages_count \in 0..3
    /\ no_new_listings_count \in 0..3

\* Records have been scraped, and a third page in a row has brought nothing
\* new.
C28_Witness ==
    /\ total_items_scraped >= 1
    /\ new_items_found >= 2
    /\ no_new_listings_count = 3
    /\ stop = "no_new_listings"

\* -------- SpecGeo: the database of the funda package and the geocoder

\* Number of insert_property calls on the database of the funda package.
MaxUpserts == 3

\* The listings the funda spiders scrape.
GEO_URLS == {"u1", "u2"}

\* The columns insert_property names besides url (database.py lines 66-68),
\* as far as the geocoder and the claims read them.
GEO_COLUMNS == {"street", "postal_code", "city", "price"}

\* The records the pipeline hands to insert_property: a full address or no
\* street, one of two prices.
GEO_ITEMS ==
    {[k \in {"url"} \cup GEO_COLUMNS |->
        CASE k = "url" -> u
          [] k = "street" -> st
          [] k = "price" -> pr
          [] OTHER -> "full_" \o k] :
        u \in GEO_URLS, st \in {"full_street", NULL}, pr \in {"p1", "p2"}}

\* What geocode_address returns for an address it finds (lines 47-88).
COORDINATES == [latitude |-> "52.37", longitude |-> "4.89"]

\* database.py lines 64-86: INSERT OR REPLACE INTO properties (url, ...)
\* VALUES (...).  url is UNIQUE (line 30): on a conflict REPLACE deletes the
\* row that holds the url and inserts a new one.  The new row takes the
\* next AUTOINCREMENT id (line 29), created_at takes its DEFAULT
\* CURRENT_TIMESTAMP (line 44), and latitude and longitude, which the
\* statement does not name, are NULL (lines 45-46).
funda_insert_property(rows, sequence, item, at) ==
    LET kept == {r \in rows : r.url # Get(item, "url")}
        row == [id |-> sequence + 1,
                url |-> Get(item, "url"),
                street |-> Get(item, "street"),
                postal_code |-> Get(item, "postal_code"),
                city |-> Get(item, "city"),
                price |-> Get(item, "price"),
                created_at |-> at,
                latitude |-> NULL,
                longitude |-> NULL]
    IN  [rows |-> kept \cup {row}, seq |-> sequence + 1]

\* geocode_properties.py lines 104-108: the rows without coordinates.
without_coordinates(rows) ==
    {r \in rows : r.latitude = NULL \/ r.longitude = NULL}

\* Lines 120-134: each selected row with a full address is geocoded, and
\* updated by id when the address was found.
update_coordinates(rows, located) ==
    {IF /\ r \in without_coordinates(rows)
        /\ r.street # NULL /\ r.postal_code # NULL /\ r.city # NULL
        /\ r.url \in located
       THEN [r EXCEPT !.latitude = COORDINATES.latitude,
                      !.longitude = COORDINATES.longitude]
       ELSE r : r \in rows}

\* FundaDB() of the funda package on a new file: init_db creates the table.
InitGeo ==
    /\ NoEarly
    /\ NoRestart
    /\ NoBlocks
    /\ NoLabel
    /\ NoOut
    /\ funda_properties = {}
    /\ funda_seq = 0
    /\ today = 1
    /\ upserts = <<>>

\* FundaPipeline.process_item (funda/data/pipelines.py line 50):
\* self.db.insert_property(item), some time after the last call.
GeoUpsert(item, dt) ==
    /\ Len(upserts) < MaxUpserts
    /\ LET out == funda_insert_property(funda_properties, funda_seq, item,
                                        today + dt)
       IN  /\ funda_properties' = out.rows
           /\ funda_seq' = out.seq
    /\ today' = today + dt
    /\ upserts' = Append(upserts, item.url)
    /\ UNCHANGED <<earlyvars, besides_geo>>

\* PropertyGeocoder.update_coordinates(): one run of the geocoder, which
\* finds the addresses of the listings in `located`.
GeoUpdateCoordinates(located) ==
    /\ funda_properties' = update_coordinates(funda_properties, located)
    /\ UNCHANGED <<earlyvars, besides_geo, funda_seq, today, upserts>>

NextGeo ==
    \/ \E item \in GEO_ITEMS, dt \in {0, 1} : GeoUpsert(item, dt)
    \/ \E located \in SUBSET GEO_URLS : GeoUpdateCoordinates(located)

SpecGeo == InitGeo /\ [][NextGeo]_vars

\* The step is a call of insert_property.
IsUpsert == Len(upserts') = Len(upserts) + 1

\* C29: a call of insert_property for a url that already has a row leaves
\* that row's id, created_at, latitude and longitude unchanged, so the
\* coordinates the geocoder wrote survive every later crawl of the listing.
C29_UpsertKeepsRow ==
    [][IsUpsert =>
         \A r \in funda_properties :
             r.url = upserts'[Len(upserts')] =>
                 \E kept \in funda_properties' :
                     /\ kept.url = r.url
                     /\ kept.id = r.id
                     /\ kept.created_at = r.created_at
                     /\ kept.latitude = r.latitude
                     /\ kept.longitude = r.longitude]_vars

\* ----------- SpecOut: the messages a server run writes to standard output

\* Number of records one server run scrapes.
MaxItems == 101

\* run_spider.py line 52: ItemCollector(batch_size=50), built at line 92
\* without an argument.
batch_size == 50

\* The url of the n-th record of the run.
ItemUrl(n) == "https://www.funda.nl/detail/koop/" \o ToString(n) \o "/"

\* items.py lines 25-27: to_dict keeps the fields that are not None;
\* scraped_at is a time, never None.
to_dict(item) ==
    [k \in {f \in DOMAIN item : f = "scraped_at" \/ item[f] # NULL} |-> item[k]]

\* pipelines.py lines 57-69, JsonMessagePipeline.process_item: one message
\* of type 'items' with the one record, printed at once.
json_message_process_item(out, item) ==
    Append(out, [type |-> "items", data |-> <<to_dict(item)>>])

\* pipelines.py lines 71-81, JsonMessagePipeline.close_spider.
json_message_close_spider(out, total) ==
    Append(out, [type |-> "complete",
                 data |-> [status |-> "success", total_items |-> total]])

\* run_spider.py lines 66-74, ItemCollector.flush_items.
flush_items(c, out) ==
    IF c.items # <<>>
      THEN [collector |-> [c EXCEPT !.items = <<>>],
            stdout |-> Append(out, [type |-> "items", data |-> c.items])]
      ELSE [collector |-> c, stdout |-> out]

\* run_spider.py lines 57-64, ItemCollector.process_item.
collector_process_item(c, out, item) ==
    LET added == [items |-> Append(c.items, to_dict(item)),
                  total_items |-> c.total_items + 1]
    IN  IF Len(added.items) >= batch_size
          THEN flush_items(added, out)
          ELSE [collector |-> added, stdout |-> out]

\* JsonMessagePipeline.close_spider has printed its message.
SpiderClosed == \E i \in DOMAIN stdout : stdout[i].type = "complete"

\* run_spider (lines 87-119): the collector is built, handle_item is
\* connected to item_scraped, the crawl is started.
InitOut ==
    /\ NoEarly
    /\ NoRestart
    /\ NoBlocks
    /\ NoLabel
    /\ NoGeo
    /\ collector = [items |-> <<>>, total_items |-> 0]
    /\ stdout = <<>>
    /\ item_count = 0
    /\ returned = FALSE

\* A detail callback returns a record.  It passes the pipelines of the
\* spider's custom_settings (funda_spider.py lines 24-27): FundaPipeline,
\* then JsonMessagePipeline; then the engine sends item_scraped, which
\* handle_item (run_spider.py lines 95-97) hands to the collector.
ItemScraped ==
    /\ ~SpiderClosed
    /\ item_count < MaxItems
    /\ LET item == FundaItem(ItemUrl(item_count + 1), "active")
           printed == json_message_process_item(stdout, item)
           out == collector_process_item(collector, printed, item)
       IN  /\ collector' = out.collector
           /\ stdout' = out.stdout
    /\ item_count' = item_count + 1
    /\ UNCHANGED <<earlyvars, besides_out, returned>>

\* The crawl ends: the engine closes the spider and its pipelines.
CloseSpider ==
    /\ ~SpiderClosed
    /\ stdout' = json_message_close_spider(stdout, item_count)
    /\ UNCHANGED <<earlyvars, besides_out, collector, item_count, returned>>

\* run_spider.py lines 119-124: process.start() returns, the collector is
\* flushed, run_spider returns True.
RunSpiderReturns ==
    /\ SpiderClosed
    /\ ~returned
    /\ LET out == flush_items(collector, stdout)
       IN  /\ collector' = out.collector
           /\ stdout' = out.stdout
    /\ returned' = TRUE
    /\ UNCHANGED <<earlyvars, besides_out, item_count>>

NextOut ==
    \/ ItemScraped
    \/ CloseSpider
    \/ RunSpiderReturns

SpecOut == InitOut /\ [][NextOut]_vars

\* The messages of type 'items' on standard output.
ItemsMessages == {i \in DOMAIN stdout : stdout[i].type = "items"}

\* The places of standard output that hold the n-th record.
Written(n) ==
    {<<i, j>> \in ItemsMessages \X (1..batch_size + 1) :
        j <= Len(stdout[i].data) /\ stdout[i].data[j].url = ItemUrl(n)}

\* C30: on the server run path every scraped record is written to standard
\* output in exactly one message of type 'items', never zero times once the
\* run has returned and never more than once, and no 'items' message holds
\* more than batch_size (50) records.
C30_ExactlyOnce ==
    /\ \A i \in ItemsMessages : Len(stdout[i].data) <= batch_size
    /\ \A n \in 1..item_count : Cardinality(Written(n)) <= 1
    /\ returned => \A n \in 1..item_count : Cardinality(Written(n)) = 1

====
